---------------------------- MODULE Spec2Model ----------------------------
(***************************************************************************)
(* A model of chronicle's Tauri backend (app/src-tauri/src):               *)
(*   - session/tracker.rs : the Session state machine                      *)
(*   - commands/claude.rs : the task runner (run_claude_streaming), the    *)
(*     standalone task commands and the background-agent pipeline          *)
(*   - session/tracker.rs, commands/session.rs : the SessionManager        *)
(*   - watcher.rs : the filesystem watcher                                 *)
(*   - git/repo.rs, commands/git.rs : the commit layer                     *)
(*   - storage/metadata.rs, storage/naming.rs : metadata files and renames *)
(*                                                                         *)
(* The specifications of the module:                                       *)
(*   SessionSpec  : one Session value under record_edit / end /            *)
(*                  check_timeouts / start and a wall clock                *)
(*   TaskSpec     : one invocation of process_note, generate_digest,       *)
(*                  run_custom_command or run_claude_task                  *)
(*   PipelineSpec : one invocation of run_background_agents                *)
(*   ManagerSpec  : the SessionManager under the session commands, one     *)
(*                  command at a time                                      *)
(*   ThreadsSpec  : the session commands called from several threads      *)
(*   WatcherSpec  : the ChronicleWatcher and its event callback            *)
(*   GitSpec      : a workspace repository under init_or_open_repo,        *)
(*                  commit_files, commit_snapshot and edits of the files   *)
(*   StorageSpec  : notes and their metadata files under save, load and    *)
(*                  rename                                                 *)
(*   RunnerFairSpec : run_claude_task with fair scheduling of the reader   *)
(*                  tasks and of the runner                                *)
(*   OverlapSpec  : two concurrent invocations of run_background_agents    *)
(***************************************************************************)
EXTENDS Integers, Sequences, FiniteSets, TLC

VARIABLES
    \* ---- session/tracker.rs ----
    session,     \* the Session value (struct Session, tracker.rs:43-60)
    now,         \* the wall clock read by Utc::now()
    lastOp,      \* the last Session method called, its arguments and result
    pre,         \* the Session value just before that call
    \* ---- commands/claude.rs ----
    cmd,         \* the Tauri command being executed
    pc,          \* position of the command's async fn
    stage,       \* index of the run_claude_streaming invocation in progress
    env,         \* platform and filesystem the command runs against
    child,       \* per invocation: the spawned process
    pipes,       \* per invocation: lines in flight on stdout / stderr
    readers,     \* per invocation: the two spawned reader tasks
    results,     \* per invocation: what run_agent / run_claude_streaming returned
    events,      \* every event passed to app_handle.emit, in order
    attempted,   \* the invocations for which run_agent has been called
    ret,         \* what the command returned to its caller
    \* ---- session/tracker.rs, commands/session.rs : SessionManager ----
    manager,     \* the SessionManager held by SessionState: current, config
    mgrOp,       \* the last session command called, its arguments and result
    mgrPre,      \* the SessionManager just before that command
    threads,     \* per thread: the session command it is executing
    locks,       \* owners of the two mutexes (0: unlocked)
    \* ---- watcher.rs ----
    watch,       \* ChronicleWatcher.inner and the result of the last start()
    lastFs,      \* the last event handed to the watcher's callback
    fsSeen,      \* per path: Create / Modify events that carried it
    emitted,     \* per notification name: times it was emitted
    \* ---- git/repo.rs, commands/git.rs ----
    repo,        \* the repository in the workspace: .git, index, commits, HEAD
    worktree,    \* the files of the workspace and the edits made to them
    gitOp,       \* the last git operation called, its arguments and result
    \* ---- storage/metadata.rs, storage/naming.rs ----
    disk,        \* the notes and metadata files on disk
    saved,       \* per note: the session metadata last saved for it
    stOp,        \* the last storage operation called, its path and result
    \* ---- commands/claude.rs : concurrent run_background_agents ----
    agentRuns,   \* per invocation of the command: its position and result
    agentEvents  \* the events the invocations emitted, in order

sessionVars == <<session, now, lastOp, pre>>
taskVars == <<cmd, pc, stage, env, child, pipes, readers, results, events,
              attempted, ret>>
managerVars == <<manager, mgrOp, mgrPre, threads, locks>>
watcherVars == <<watch, lastFs, fsSeen, emitted>>
gitVars == <<repo, worktree, gitOp>>
storageVars == <<disk, saved, stOp>>
overlapVars == <<agentRuns, agentEvents>>
vars == <<session, now, lastOp, pre,
          cmd, pc, stage, env, child, pipes, readers, results, events,
          attempted, ret,
          manager, mgrOp, mgrPre, threads, locks,
          watch, lastFs, fsSeen, emitted,
          repo, worktree, gitOp,
          disk, saved, stOp,
          agentRuns, agentEvents>>

(***************************************************************************)
(* Option<T>: None is the empty sequence, Some(x) the one-element sequence *)
(***************************************************************************)
None == <<>>
Some(x) == <<x>>
IsSome(o) == o # <<>>
Unwrap(o) == o[1]

Max(a, b) == IF a >= b THEN a ELSE b

(***************************************************************************)
(*                      session/tracker.rs : Session                       *)
(***************************************************************************)

\* Bounds of the session model.  Time is counted in ticks; a minute is
\* TicksPerMinute ticks, so that num_minutes() truncates.
MaxTime == 3
TicksPerMinute == 2
MaxThreshold == 1
MaxAnnotations == 2

Times == 0..MaxTime
Notes == {"note.md"}

\* enum SessionState
Inactive == "Inactive"
Active == "Active"
Ended == "Ended"

\* struct SessionConfig, in minutes
Configs == [inactivity_timeout_minutes : 0..MaxThreshold,
            max_duration_minutes : 0..MaxThreshold]

\* Duration::minutes(m) in ticks
Minutes(m) == m * TicksPerMinute

\* Duration::num_minutes(): whole minutes, truncated toward zero
NumMinutes(d) ==
    IF d >= 0 THEN d \div TicksPerMinute ELSE -((-d) \div TicksPerMinute)

\* (now - started).num_minutes().max(0) as u32
DurationMinutes_abs(t, started) ==
    IF NumMinutes(t - started) >= 0 THEN NumMinutes(t - started)
    ELSE -NumMinutes(t - started)

DurationMinutes(t, started) == Max(NumMinutes(t - started), 0)

\* Session::new
SessionNew(path) ==
    [note_path |-> path, state |-> Inactive,
     started_at |-> None, ended_at |-> None, last_edit_at |-> None,
     duration_minutes |-> 0, annotation_count |-> 0,
     last_annotation_at |-> None]

\* Session::from_ended
SessionFromEnded(path, started, ended, dur, count, lastAnn) ==
    [note_path |-> path, state |-> Ended,
     started_at |-> Some(started), ended_at |-> Some(ended),
     last_edit_at |-> Some(ended),
     duration_minutes |-> dur, annotation_count |-> count,
     last_annotation_at |-> lastAnn]

\* Session::start; t is its Utc::now()
SessionStart_keepsEnded(s, t) ==
    [s EXCEPT !.state = Active,
              !.started_at = Some(t),
              !.last_edit_at = Some(t),
              !.duration_minutes = 0,
              !.annotation_count = 0,
              !.last_annotation_at = None]

SessionStart(s, t) ==
    [s EXCEPT !.state = Active,
              !.started_at = Some(t),
              !.last_edit_at = Some(t),
              !.ended_at = None,
              !.duration_minutes = 0,
              !.annotation_count = 0,
              !.last_annotation_at = None]

\* The Ended arm of Session::record_edit: an annotation
Annotate_keepCount(s, t) ==
    [s EXCEPT !.last_annotation_at = Some(t)]

Annotate(s, t) ==
    [s EXCEPT !.annotation_count = @ + 1,
              !.last_annotation_at = Some(t)]

\* Session::record_edit; t is its own Utc::now(), t2 the one start() reads
SessionRecordEdit_reopens(s, t, t2) ==
    IF s.state = Active THEN [s EXCEPT !.last_edit_at = Some(t)]
    ELSE SessionStart(s, t2)

SessionRecordEdit_stampsCall(s, t, t2) ==
    CASE s.state = Inactive -> [SessionStart(s, t2) EXCEPT !.last_edit_at = Some(t)]
      [] s.state = Active -> [s EXCEPT !.last_edit_at = Some(t)]
      [] s.state = Ended -> Annotate(s, t)

SessionRecordEdit_restarts(s, t, t2) ==
    CASE s.state = Inactive -> SessionStart(s, t2)
      [] s.state = Active -> [s EXCEPT !.started_at = Some(t),
                                       !.last_edit_at = Some(t)]
      [] s.state = Ended -> Annotate(s, t)

SessionRecordEdit(s, t, t2) ==
    CASE s.state = Inactive -> SessionStart(s, t2)
      [] s.state = Active -> [s EXCEPT !.last_edit_at = Some(t)]
      [] s.state = Ended -> Annotate(s, t)

\* Session::end; t is its Utc::now()
SessionEnd_unguarded(s, t) ==
    [s EXCEPT !.state = Ended,
              !.ended_at = Some(t),
              !.duration_minutes =
                  IF IsSome(s.started_at)
                  THEN DurationMinutes(t, Unwrap(s.started_at)) ELSE @]

SessionEnd(s, t) ==
    IF s.state # Active THEN s
    ELSE [s EXCEPT !.state = Ended,
                   !.ended_at = Some(t),
                   !.duration_minutes =
                       IF IsSome(s.started_at)
                       THEN DurationMinutes(t, Unwrap(s.started_at)) ELSE @]

\* The two threshold tests of Session::check_timeouts
MaxDurationReached(s, cfg, t) ==
    /\ IsSome(s.started_at)
    /\ t - Unwrap(s.started_at) >= Minutes(cfg.max_duration_minutes)

InactivityReached_strict(s, cfg, t) ==
    /\ IsSome(s.last_edit_at)
    /\ t - Unwrap(s.last_edit_at) > Minutes(cfg.inactivity_timeout_minutes)

InactivityReached(s, cfg, t) ==
    /\ IsSome(s.last_edit_at)
    /\ t - Unwrap(s.last_edit_at) >= Minutes(cfg.inactivity_timeout_minutes)

\* Session::check_timeouts; t is its own Utc::now(), t2 the one end() reads.
\* The result pairs the new Session value with the returned bool.
SessionCheckTimeouts(s, cfg, t, t2) ==
    IF s.state # Active THEN [session |-> s, ret |-> FALSE]
    ELSE IF MaxDurationReached(s, cfg, t)
         THEN [session |-> SessionEnd(s, t2), ret |-> TRUE]
    ELSE IF InactivityReached(s, cfg, t)
         THEN [session |-> SessionEnd(s, t2), ret |-> TRUE]
    ELSE [session |-> s, ret |-> FALSE]

\* A second Utc::now() inside one method: the same tick or the next one
LaterReads(t) == {t2 \in Times : t2 = t \/ t2 = t + 1}

NoCfg == [inactivity_timeout_minutes |-> 0, max_duration_minutes |-> 0]

Op(name, cfg, t, t2, r) ==
    [op |-> name, cfg |-> cfg, t |-> t, t2 |-> t2, ret |-> r]

\* Values a caller of Session::from_ended can pass (metadata read from disk)
RestoredSessions ==
    {SessionFromEnded(p, s, e, d, c, la) :
        p \in Notes, s \in Times, e \in Times,
        d \in {0, MaxThreshold}, c \in {0, MaxAnnotations - 1},
        la \in {None, Some(0)}}

SessionInit ==
    /\ session \in {SessionNew(p) : p \in Notes} \cup RestoredSessions
    /\ now \in Times
    /\ lastOp = Op("new", NoCfg, 0, 0, FALSE)
    /\ pre = session

\* session.record_edit()
RecordEdit ==
    /\ session.state = Ended => session.annotation_count < MaxAnnotations
    /\ \E t2 \in IF session.state = Inactive THEN LaterReads(now) ELSE {now} :
        /\ pre' = session
        /\ session' = SessionRecordEdit(session, now, t2)
        /\ lastOp' = Op("record_edit", NoCfg, now, t2, FALSE)
        /\ now' = t2
    /\ UNCHANGED <<taskVars, managerVars, watcherVars, gitVars, storageVars, overlapVars>>

\* session.end()
End ==
    /\ pre' = session
    /\ session' = SessionEnd(session, now)
    /\ lastOp' = Op("end", NoCfg, now, now, FALSE)
    /\ now' = now
    /\ UNCHANGED <<taskVars, managerVars, watcherVars, gitVars, storageVars, overlapVars>>

\* session.check_timeouts(&cfg)
CheckTimeouts ==
    /\ \E cfg \in Configs, t2 \in LaterReads(now) :
        LET r == SessionCheckTimeouts(session, cfg, now, t2)
            t3 == IF r.ret THEN t2 ELSE now
        IN
        /\ pre' = session
        /\ session' = r.session
        /\ lastOp' = Op("check_timeouts", cfg, now, t3, r.ret)
        /\ now' = t3
    /\ UNCHANGED <<taskVars, managerVars, watcherVars, gitVars, storageVars, overlapVars>>

\* session.start()
Start ==
    /\ pre' = session
    /\ session' = SessionStart(session, now)
    /\ lastOp' = Op("start", NoCfg, now, now, FALSE)
    /\ now' = now
    /\ UNCHANGED <<taskVars, managerVars, watcherVars, gitVars, storageVars, overlapVars>>

\* The wall clock advances ...
ClockTick ==
    /\ now < MaxTime
    /\ now' = now + 1
    /\ pre' = session
    /\ lastOp' = Op("clock", NoCfg, now, now + 1, FALSE)
    /\ UNCHANGED <<session, taskVars, managerVars, watcherVars, gitVars, storageVars, overlapVars>>

\* ... or is set back (Utc::now() is not monotonic)
ClockSetBack ==
    /\ \E t \in Times :
        /\ t < now
        /\ now' = t
        /\ lastOp' = Op("clock", NoCfg, now, t, FALSE)
    /\ pre' = session
    /\ UNCHANGED <<session, taskVars, managerVars, watcherVars, gitVars, storageVars, overlapVars>>

SessionNext ==
    \/ RecordEdit
    \/ End
    \/ CheckTimeouts
    \/ Start
    \/ ClockTick
    \/ ClockSetBack


(***************************************************************************)
(*                 commands/claude.rs : the task runner                    *)
(***************************************************************************)

\* Bounds of the task model
MaxLines == 2        \* lines a child writes per stream (standalone task)
MaxStageLines == 1   \* the same for a pipeline stage
PipeCapacity == 1    \* lines an OS pipe holds before the writer blocks

\* Result<T, String>
Ok(v) == [ok |-> TRUE, val |-> v]
Err(e) == [ok |-> FALSE, val |-> e]

\* The invocations of run_claude_streaming one command can make: one for a
\* standalone task, one per stage for the pipeline
Stages == 1..3
AgentName(s) ==
    CASE s = 1 -> "tagger" [] s = 2 -> "actions" [] s = 3 -> "context-updater"

StandaloneCommands ==
    {"process_note", "generate_digest", "run_custom_command", "run_claude_task"}
Pipeline == "run_background_agents"

\* What the child writes: stdout is a prefix of a, b, c; stderr is a prefix
\* of e, f, g or consists of empty lines
OutText == <<"a", "b", "c">>
ErrText == <<"e", "f", "g">>
BlankText == <<"", "", "">>
OutScripts(n) == {SubSeq(OutText, 1, k) : k \in 0..n}
ErrScripts(n) ==
    {SubSeq(ErrText, 1, k) : k \in 0..n} \cup {SubSeq(BlankText, 1, k) : k \in 1..n}

\* The names of the events the commands emit, and the sets of names for
\* which app_handle.emit returns Err in a run: none, all (no window is
\* there to receive them), or the output lines alone
EventNames ==
    {"claude:task-started", "claude:task-completed", "claude:task-error",
     "claude:output-line", "claude:agents-started", "claude:agents-completed"}
EmitFailures == {{}, EventNames, {"claude:output-line"}}

\* The environments a command can run in.  outs and errs are what the tool
\* writes when it runs; where it cannot run they are left empty.
Environments(outs, errs) ==
    {e \in [platform : {"unix", "windows"},   \* cfg!(target_os = "windows")
            installed : BOOLEAN,              \* claude is on the PATH
            cwd_exists : BOOLEAN,             \* workspace_path is a directory
            emit_fails : EmitFailures,        \* the emit calls that fail
            out : outs,
            err : errs] :
        (~e.installed \/ ~e.cwd_exists) => (e.out = <<>> /\ e.err = <<>>)}

\* std::io::Error values the model distinguishes
IoNotFound == [kind |-> "NotFound", msg |-> "No such file or directory (os error 2)"]
IoDenied == [kind |-> "PermissionDenied", msg |-> "Permission denied (os error 13)"]
IoBadDir == [kind |-> "NotADirectory", msg |-> "The directory name is invalid. (os error 267)"]
IoSpawned == [kind |-> "Spawned", msg |-> ""]
IoNoChild == [kind |-> "Uncategorized", msg |-> "No child processes (os error 10)"]

\* The program handed to the OS: cmd /c claude on Windows, claude elsewhere
SpawnProgram(e) == IF e.platform = "windows" THEN "cmd" ELSE "claude"

ProgramExists(e) == IF SpawnProgram(e) = "cmd" THEN TRUE ELSE e.installed

\* What cmd.current_dir(workspace_path)...spawn() can return: IoSpawned or
\* an io::Error.  A missing program is NotFound; so is, on Unix, a missing
\* working directory (chdir fails with ENOENT in the child).
SpawnOutcomes(e) ==
    IF ~ProgramExists(e) THEN {IoNotFound}
    ELSE IF ~e.cwd_exists
         THEN {IF e.platform = "windows" THEN IoBadDir ELSE IoNotFound}
    ELSE {IoSpawned, IoDenied}

NotInstalledMsg ==
    "Claude Code is not installed. Install it from https://claude.ai/download"

\* The map_err closure on spawn()
SpawnError(e) ==
    IF e.kind = "NotFound" THEN NotInstalledMsg
    ELSE "Failed to run Claude Code: " \o e.msg

WaitError(e) == "Failed to wait for Claude process: " \o e.msg

\* The process that runs once spawn() succeeded.  On Windows the process is
\* cmd.exe, which itself reports a missing claude on stderr and exits 1.
ShellNotRecognized == "'claude' is not recognized as an internal or external command,"

ChildScripts(e) ==
    IF e.platform = "windows" /\ ~e.installed
    THEN {[out |-> <<>>, err |-> <<ShellNotRecognized>>, exit_ok |-> FALSE]}
    ELSE {[out |-> e.out, err |-> e.err, exit_ok |-> b] : b \in BOOLEAN}

\* lines.join("\n")
RECURSIVE Join(_)
Join(lines) ==
    IF lines = <<>> THEN ""
    ELSE IF Len(lines) = 1 THEN lines[1]
    ELSE lines[1] \o "\n" \o Join(Tail(lines))

\* The ClaudeResult built at the end of run_claude_streaming (duration_ms,
\* a wall-clock measurement, is left out)
ClaudeResult_stderrFails(status_ok, out_lines, err_lines) ==
    [success |-> status_ok /\ Join(err_lines) = "",
     output |-> Join(out_lines),
     error |-> IF Join(err_lines) = "" THEN None ELSE Some(Join(err_lines))]

ClaudeResult_noneIffNoLines(status_ok, out_lines, err_lines) ==
    [success |-> status_ok,
     output |-> Join(out_lines),
     error |-> IF err_lines = <<>> THEN None ELSE Some(Join(err_lines))]

ClaudeResult(status_ok, out_lines, err_lines) ==
    [success |-> status_ok,
     output |-> Join(out_lines),
     error |-> IF Join(err_lines) = "" THEN None ELSE Some(Join(err_lines))]

NoChild == [state |-> "none", out |-> <<>>, err |-> <<>>, exit_ok |-> FALSE]
NoPipes == [out |-> <<>>, err |-> <<>>, open |-> FALSE]
NoReaders == [out |-> [state |-> "none", lines |-> <<>>],
              err |-> [state |-> "none", lines |-> <<>>]]

\* Events handed to app_handle.emit; inv (the invocation that emitted it)
\* is bookkeeping of the model, not part of the payload
TaskStarted(task, note, s) ==
    [name |-> "claude:task-started", task |-> task, note |-> note,
     data |-> None, inv |-> s]
TaskCompleted(task, note, result, s) ==
    [name |-> "claude:task-completed", task |-> task, note |-> note,
     data |-> Some(result), inv |-> s]
TaskError(task, note, error, s) ==
    [name |-> "claude:task-error", task |-> task, note |-> note,
     data |-> Some(error), inv |-> s]
OutputLine_flagInverted(line, is_stderr, s) ==
    [name |-> "claude:output-line", task |-> "", note |-> None,
     data |-> Some([line |-> line, is_stderr |-> ~is_stderr]), inv |-> s]
OutputLine(line, is_stderr, s) ==
    [name |-> "claude:output-line", task |-> "", note |-> None,
     data |-> Some([line |-> line, is_stderr |-> is_stderr]), inv |-> s]
AgentsStarted ==
    [name |-> "claude:agents-started", task |-> "", note |-> None,
     data |-> None, inv |-> 0]
AgentsCompleted ==
    [name |-> "claude:agents-completed", task |-> "", note |-> None,
     data |-> None, inv |-> 0]

TaskInitWith(commands, outs, errs) ==
    /\ cmd \in commands
    /\ env \in Environments(outs, errs)
    /\ pc = "start"
    /\ stage = 1
    /\ child = [s \in Stages |-> NoChild]
    /\ pipes = [s \in Stages |-> NoPipes]
    /\ readers = [s \in Stages |-> NoReaders]
    /\ results = [s \in Stages |-> None]
    /\ events = <<>>
    /\ attempted = {}
    /\ ret = None

SessionValueIdle ==
    /\ session = SessionNew("note.md")
    /\ lastOp = Op("new", NoCfg, 0, 0, FALSE)
    /\ pre = session

SessionIdle ==
    /\ SessionValueIdle
    /\ now = 0

TaskIdle ==
    /\ cmd = "none"
    /\ env = [platform |-> "unix", installed |-> TRUE, cwd_exists |-> TRUE,
              emit_fails |-> {}, out |-> <<>>, err |-> <<>>]
    /\ pc = "done"
    /\ stage = 1
    /\ child = [s \in Stages |-> NoChild]
    /\ pipes = [s \in Stages |-> NoPipes]
    /\ readers = [s \in Stages |-> NoReaders]
    /\ results = [s \in Stages |-> None]
    /\ events = <<>>
    /\ attempted = {}
    /\ ret = None

---------------------------------------------------------------------------
\* run_claude_streaming, invocation `stage`

\* cmd.spawn(), then child.stdout.take(), child.stderr.take() and the two
\* tokio::spawn calls
Spawn ==
    /\ pc = "spawn"
    /\ \E o \in SpawnOutcomes(env) :
        IF o.kind = "Spawned"
        THEN \E sc \in ChildScripts(env) :
                /\ child' = [child EXCEPT ![stage] =
                       [state |-> "running", out |-> sc.out, err |-> sc.err,
                        exit_ok |-> sc.exit_ok]]
                /\ pipes' = [pipes EXCEPT ![stage] =
                       [out |-> <<>>, err |-> <<>>, open |-> TRUE]]
                /\ readers' = [readers EXCEPT ![stage] =
                       [out |-> [state |-> "running", lines |-> <<>>],
                        err |-> [state |-> "running", lines |-> <<>>]]]
                /\ pc' = "wait"
                /\ UNCHANGED results
        ELSE /\ results' = [results EXCEPT ![stage] = Some(Err(SpawnError(o)))]
             /\ pc' = "after_run"
             /\ UNCHANGED <<child, pipes, readers>>
    /\ UNCHANGED <<cmd, stage, env, events, attempted, ret,
                   sessionVars, managerVars, watcherVars, gitVars, storageVars, overlapVars>>


\* child.wait().await returns the exit status once the process has exited
Wait ==
    /\ pc = "wait"
    /\ child[stage].state = "exited"
    /\ pc' = "join_stdout"
    /\ UNCHANGED <<cmd, stage, env, child, pipes, readers, results, events,
                   attempted, ret,
                   sessionVars, managerVars, watcherVars, gitVars, storageVars, overlapVars>>

\* child.wait().await returns an io::Error: the ? returns at once, dropping
\* the Child (not killed: kill_on_drop is off) and both JoinHandles (the
\* reader tasks are detached and keep running)
WaitFails ==
    /\ pc = "wait"
    /\ results' = [results EXCEPT ![stage] = Some(Err(WaitError(IoNoChild)))]
    /\ pc' = "after_run"
    /\ UNCHANGED <<cmd, stage, env, child, pipes, readers, events, attempted, ret,
                   sessionVars, managerVars, watcherVars, gitVars, storageVars, overlapVars>>

\* stdout_task.await: the reader has returned its joined lines.  (A
\* JoinError needs a panicking or aborted task; the reader bodies do neither.)
JoinStdout ==
    /\ pc = "join_stdout"
    /\ readers[stage].out.state = "done"
    /\ pc' = "join_stderr"
    /\ UNCHANGED <<cmd, stage, env, child, pipes, readers, results, events,
                   attempted, ret,
                   sessionVars, managerVars, watcherVars, gitVars, storageVars, overlapVars>>

\* stderr_task.await, then Ok(ClaudeResult { .. })
JoinStderr ==
    /\ pc = "join_stderr"
    /\ readers[stage].err.state = "done"
    /\ results' = [results EXCEPT ![stage] =
           Some(Ok(ClaudeResult(child[stage].exit_ok,
                                readers[stage].out.lines,
                                readers[stage].err.lines)))]
    /\ pc' = "after_run"
    /\ UNCHANGED <<cmd, stage, env, child, pipes, readers, events, attempted, ret,
                   sessionVars, managerVars, watcherVars, gitVars, storageVars, overlapVars>>

---------------------------------------------------------------------------
\* The spawned process and the two reader tasks of invocation s

\* The process writes its next stdout line; it blocks while the pipe is full
ChildWriteStdout(s) ==
    /\ child[s].state = "running"
    /\ child[s].out # <<>>
    /\ Len(pipes[s].out) < PipeCapacity
    /\ pipes' = [pipes EXCEPT ![s].out = Append(@, Head(child[s].out))]
    /\ child' = [child EXCEPT ![s].out = Tail(@)]
    /\ UNCHANGED <<cmd, pc, stage, env, readers, results, events, attempted, ret,
                   sessionVars, managerVars, watcherVars, gitVars, storageVars, overlapVars>>

ChildWriteStderr(s) ==
    /\ child[s].state = "running"
    /\ child[s].err # <<>>
    /\ Len(pipes[s].err) < PipeCapacity
    /\ pipes' = [pipes EXCEPT ![s].err = Append(@, Head(child[s].err))]
    /\ child' = [child EXCEPT ![s].err = Tail(@)]
    /\ UNCHANGED <<cmd, pc, stage, env, readers, results, events, attempted, ret,
                   sessionVars, managerVars, watcherVars, gitVars, storageVars, overlapVars>>

\* The process exits, which closes the write end of both pipes
ChildExit(s) ==
    /\ child[s].state = "running"
    /\ child[s].out = <<>>
    /\ child[s].err = <<>>
    /\ child' = [child EXCEPT ![s].state = "exited"]
    /\ pipes' = [pipes EXCEPT ![s].open = FALSE]
    /\ UNCHANGED <<cmd, pc, stage, env, readers, results, events, attempted, ret,
                   sessionVars, managerVars, watcherVars, gitVars, storageVars, overlapVars>>

\* app_handle.emit(name, ..): Ok, or Err when the event cannot be delivered
EmitOk(e, name) == name \notin e.emit_fails

\* emit(..).ok(); lines.push(line): the result of emit is discarded
Pushed_unlessEmitFailed(emit_ok, lines, line) ==
    IF emit_ok THEN Append(lines, line) ELSE lines
Pushed(emit_ok, lines, line) == Append(lines, line)

\* One turn of the stdout reader's loop: next_line() yields a line, which
\* is emitted and pushed, or end of stream, which ends the task
\* The stdout reader as it would be if the stream were drained only after
\* the process has exited
ReadStdout_afterExit(s) ==
    /\ readers[s].out.state = "running"
    /\ child[s].state = "exited"
    /\ \/ /\ pipes[s].out # <<>>
          /\ events' = Append(events, OutputLine(Head(pipes[s].out), FALSE, s))
          /\ readers' = [readers EXCEPT ![s].out.lines =
                             Pushed(EmitOk(env, "claude:output-line"), @,
                                    Head(pipes[s].out))]
          /\ pipes' = [pipes EXCEPT ![s].out = Tail(@)]
       \/ /\ pipes[s].out = <<>>
          /\ ~pipes[s].open
          /\ readers' = [readers EXCEPT ![s].out.state = "done"]
          /\ UNCHANGED <<pipes, events>>
    /\ UNCHANGED <<cmd, pc, stage, env, child, results, attempted, ret,
                   sessionVars, managerVars, watcherVars, gitVars, storageVars, overlapVars>>

ReadStdout(s) ==
    /\ readers[s].out.state = "running"
    /\ \/ /\ pipes[s].out # <<>>
          /\ events' = Append(events, OutputLine(Head(pipes[s].out), FALSE, s))
          /\ readers' = [readers EXCEPT ![s].out.lines =
                             Pushed(EmitOk(env, "claude:output-line"), @,
                                    Head(pipes[s].out))]
          /\ pipes' = [pipes EXCEPT ![s].out = Tail(@)]
       \/ /\ pipes[s].out = <<>>
          /\ ~pipes[s].open
          /\ readers' = [readers EXCEPT ![s].out.state = "done"]
          /\ UNCHANGED <<pipes, events>>
    /\ UNCHANGED <<cmd, pc, stage, env, child, results, attempted, ret,
                   sessionVars, managerVars, watcherVars, gitVars, storageVars, overlapVars>>

ReadStderr(s) ==
    /\ readers[s].err.state = "running"
    /\ \/ /\ pipes[s].err # <<>>
          /\ events' = Append(events, OutputLine(Head(pipes[s].err), TRUE, s))
          /\ readers' = [readers EXCEPT ![s].err.lines =
                             Pushed(EmitOk(env, "claude:output-line"), @,
                                    Head(pipes[s].err))]
          /\ pipes' = [pipes EXCEPT ![s].err = Tail(@)]
       \/ /\ pipes[s].err = <<>>
          /\ ~pipes[s].open
          /\ readers' = [readers EXCEPT ![s].err.state = "done"]
          /\ UNCHANGED <<pipes, events>>
    /\ UNCHANGED <<cmd, pc, stage, env, child, results, attempted, ret,
                   sessionVars, managerVars, watcherVars, gitVars, storageVars, overlapVars>>

RunnerNext ==
    \/ Spawn
    \/ Wait
    \/ WaitFails
    \/ JoinStdout
    \/ JoinStderr
    \/ \E s \in Stages : ChildWriteStdout(s)
    \/ \E s \in Stages : ChildWriteStderr(s)
    \/ \E s \in Stages : ChildExit(s)
    \/ \E s \in Stages : ReadStdout(s)
    \/ \E s \in Stages : ReadStderr(s)


---------------------------------------------------------------------------
\* The standalone task commands.  Each runs invocation 1.

NotePath == "note.md"
CommandFilename == "cmd.md"
Ranges == {"daily", "weekly", "monthly", "custom", "yearly"}
KnownRanges == {"daily", "weekly", "monthly", "custom"}

\* result.error.unwrap_or_else(|| fallback)
UnwrapOr(o, fallback) == IF IsSome(o) THEN Unwrap(o) ELSE fallback

\* The match on run_claude_streaming's result in process_note
ProcessNoteTerminal(res) ==
    IF res.ok
    THEN IF res.val.success
         THEN TaskCompleted("process", Some(NotePath), res.val, 1)
         ELSE TaskError("process", Some(NotePath),
                        UnwrapOr(res.val.error, "Process failed"), 1)
    ELSE TaskError("process", Some(NotePath), res.val, 1)

\* The match on the result in generate_digest
DigestTerminal(res) ==
    IF res.ok
    THEN IF res.val.success
         THEN TaskCompleted("digest", None, res.val, 1)
         ELSE TaskError("digest", None,
                        UnwrapOr(res.val.error, "Digest generation failed"), 1)
    ELSE TaskError("digest", None, res.val, 1)

\* The match on the result in run_custom_command
CustomCommandTerminal(res) ==
    IF res.ok
    THEN TaskCompleted("command:" \o CommandFilename, None, res.val, 1)
    ELSE TaskError("command:" \o CommandFilename, None, res.val, 1)

\* process_note up to the call of run_claude_streaming: task-started is
\* emitted, then the prompt template is read
ProcessNoteStart ==
    /\ cmd = "process_note"
    /\ pc = "start"
    /\ events' = Append(events, TaskStarted("process", Some(NotePath), 1))
    /\ \/ /\ pc' = "spawn"
          /\ UNCHANGED ret
       \/ /\ pc' = "done"
          /\ ret' = Some(Err("Failed to read process prompt: " \o IoNotFound.msg))
    /\ UNCHANGED <<cmd, stage, env, child, pipes, readers, results, attempted,
                   sessionVars, managerVars, watcherVars, gitVars, storageVars, overlapVars>>

ProcessNoteFinish ==
    /\ cmd = "process_note"
    /\ pc = "after_run"
    /\ events' = Append(events, ProcessNoteTerminal(Unwrap(results[1])))
    /\ ret' = Some(Unwrap(results[1]))
    /\ pc' = "done"
    /\ UNCHANGED <<cmd, stage, env, child, pipes, readers, results, attempted,
                   sessionVars, managerVars, watcherVars, gitVars, storageVars, overlapVars>>

\* generate_digest up to the call of run_claude_streaming: the prompt is
\* read, the range matched and the digests directory created before
\* task-started is emitted
GenerateDigestStart ==
    /\ cmd = "generate_digest"
    /\ pc = "start"
    /\ \/ /\ pc' = "done"
          /\ ret' = Some(Err("Failed to read digest prompt: " \o IoNotFound.msg))
          /\ UNCHANGED events
       \/ \E range \in Ranges :
            IF range \notin KnownRanges
            THEN /\ pc' = "done"
                 /\ ret' = Some(Err("Unknown range: " \o range))
                 /\ UNCHANGED events
            ELSE \/ /\ pc' = "done"
                    /\ ret' = Some(Err("Failed to create digests dir: "
                                       \o IoDenied.msg))
                    /\ UNCHANGED events
                 \/ /\ events' = Append(events, TaskStarted("digest", None, 1))
                    /\ pc' = "spawn"
                    /\ UNCHANGED ret
    /\ UNCHANGED <<cmd, stage, env, child, pipes, readers, results, attempted,
                   sessionVars, managerVars, watcherVars, gitVars, storageVars, overlapVars>>

GenerateDigestFinish ==
    /\ cmd = "generate_digest"
    /\ pc = "after_run"
    /\ events' = Append(events, DigestTerminal(Unwrap(results[1])))
    /\ ret' = Some(Unwrap(results[1]))
    /\ pc' = "done"
    /\ UNCHANGED <<cmd, stage, env, child, pipes, readers, results, attempted,
                   sessionVars, managerVars, watcherVars, gitVars, storageVars, overlapVars>>

\* run_custom_command up to the call of run_claude_streaming
RunCustomCommandStart ==
    /\ cmd = "run_custom_command"
    /\ pc = "start"
    /\ \/ /\ pc' = "done"
          /\ ret' = Some(Err("Failed to read command: " \o IoNotFound.msg))
          /\ UNCHANGED events
       \/ /\ events' = Append(events,
                 TaskStarted("command:" \o CommandFilename, None, 1))
          /\ pc' = "spawn"
          /\ UNCHANGED ret
    /\ UNCHANGED <<cmd, stage, env, child, pipes, readers, results, attempted,
                   sessionVars, managerVars, watcherVars, gitVars, storageVars, overlapVars>>

RunCustomCommandFinish ==
    /\ cmd = "run_custom_command"
    /\ pc = "after_run"
    /\ events' = Append(events, CustomCommandTerminal(Unwrap(results[1])))
    /\ ret' = Some(Unwrap(results[1]))
    /\ pc' = "done"
    /\ UNCHANGED <<cmd, stage, env, child, pipes, readers, results, attempted,
                   sessionVars, managerVars, watcherVars, gitVars, storageVars, overlapVars>>

\* run_claude_task: run_claude_streaming and nothing else
RunClaudeTaskStart ==
    /\ cmd = "run_claude_task"
    /\ pc = "start"
    /\ pc' = "spawn"
    /\ UNCHANGED <<cmd, stage, env, child, pipes, readers, results, events,
                   attempted, ret,
                   sessionVars, managerVars, watcherVars, gitVars, storageVars, overlapVars>>

RunClaudeTaskFinish ==
    /\ cmd = "run_claude_task"
    /\ pc = "after_run"
    /\ ret' = Some(Unwrap(results[1]))
    /\ pc' = "done"
    /\ UNCHANGED <<cmd, stage, env, child, pipes, readers, results, events,
                   attempted,
                   sessionVars, managerVars, watcherVars, gitVars, storageVars, overlapVars>>

TaskNext ==
    \/ RunnerNext
    \/ ProcessNoteStart
    \/ ProcessNoteFinish
    \/ GenerateDigestStart
    \/ GenerateDigestFinish
    \/ RunCustomCommandStart
    \/ RunCustomCommandFinish
    \/ RunClaudeTaskStart
    \/ RunClaudeTaskFinish

---------------------------------------------------------------------------
\* run_background_agents: tagger, actions, context-updater

\* run_agent up to the call of run_claude_streaming: the agent's prompt
\* file is read
RunAgent_retries ==
    /\ cmd = Pipeline
    /\ pc = "agent"
    /\ attempted' = attempted \cup {stage}
    /\ \/ /\ pc' = "spawn"
       \/ /\ pc' = "agent"
    /\ UNCHANGED <<cmd, stage, env, child, pipes, readers, results, events, ret,
                   sessionVars, managerVars, watcherVars, gitVars, storageVars, overlapVars>>

RunAgent ==
    /\ cmd = Pipeline
    /\ pc = "agent"
    /\ attempted' = attempted \cup {stage}
    /\ \/ /\ pc' = "spawn"
          /\ UNCHANGED results
       \/ /\ results' = [results EXCEPT ![stage] =
                 Some(Err("Failed to read " \o AgentName(stage) \o " prompt: "
                          \o IoNotFound.msg))]
          /\ pc' = "after_run"
    /\ UNCHANGED <<cmd, stage, env, child, pipes, readers, events, ret,
                   sessionVars, managerVars, watcherVars, gitVars, storageVars, overlapVars>>

\* agents-started is emitted and run_agent("tagger") called
AgentsStart ==
    /\ cmd = Pipeline
    /\ pc = "start"
    /\ events' = Append(events, AgentsStarted)
    /\ stage' = 1
    /\ pc' = "agent"
    /\ UNCHANGED <<cmd, env, child, pipes, readers, results, attempted, ret,
                   sessionVars, managerVars, watcherVars, gitVars, storageVars, overlapVars>>

\* if let Err(e) = &tagger_result
TaggerFailed_never(res) == FALSE

TaggerFailed(res) == ~res.ok

\* run_agent("tagger") has returned
TaggerReturned_noCompleted ==
    /\ cmd = Pipeline
    /\ pc = "after_run"
    /\ stage = 1
    /\ LET res == Unwrap(results[1]) IN
       IF TaggerFailed(res)
       THEN /\ events' = Append(events, TaskError("tagger", None, res.val, 1))
            /\ ret' = Some(Err(res.val))
            /\ pc' = "done"
            /\ UNCHANGED stage
       ELSE /\ stage' = 2
            /\ pc' = "agent"
            /\ UNCHANGED <<events, ret>>
    /\ UNCHANGED <<cmd, env, child, pipes, readers, results, attempted,
                   sessionVars, managerVars, watcherVars, gitVars, storageVars, overlapVars>>

TaggerReturned ==
    /\ cmd = Pipeline
    /\ pc = "after_run"
    /\ stage = 1
    /\ LET res == Unwrap(results[1]) IN
       IF TaggerFailed(res)
       THEN /\ events' = Append(Append(events,
                             TaskError("tagger", None, res.val, 1)),
                         AgentsCompleted)
            /\ ret' = Some(Err(res.val))
            /\ pc' = "done"
            /\ UNCHANGED stage
       ELSE /\ stage' = 2
            /\ pc' = "agent"
            /\ UNCHANGED <<events, ret>>
    /\ UNCHANGED <<cmd, env, child, pipes, readers, results, attempted,
                   sessionVars, managerVars, watcherVars, gitVars, storageVars, overlapVars>>

\* run_agent("actions") has returned
ActionsReturned_aborts ==
    /\ cmd = Pipeline
    /\ pc = "after_run"
    /\ stage = 2
    /\ LET res == Unwrap(results[2]) IN
       IF ~res.ok
       THEN /\ events' = Append(Append(events,
                             TaskError("actions", None, res.val, 2)),
                         AgentsCompleted)
            /\ ret' = Some(Err(res.val))
            /\ pc' = "done"
            /\ UNCHANGED stage
       ELSE /\ stage' = 3
            /\ pc' = "agent"
            /\ UNCHANGED <<events, ret>>
    /\ UNCHANGED <<cmd, env, child, pipes, readers, results, attempted,
                   sessionVars, managerVars, watcherVars, gitVars, storageVars, overlapVars>>

ActionsReturned ==
    /\ cmd = Pipeline
    /\ pc = "after_run"
    /\ stage = 2
    /\ LET res == Unwrap(results[2]) IN
       events' = IF ~res.ok
                 THEN Append(events, TaskError("actions", None, res.val, 2))
                 ELSE events
    /\ stage' = 3
    /\ pc' = "agent"
    /\ UNCHANGED <<cmd, env, child, pipes, readers, results, attempted, ret,
                   sessionVars, managerVars, watcherVars, gitVars, storageVars, overlapVars>>

\* run_agent("context-updater") has returned; context_result.map(|_| ())
ContextReturned_returnsActions ==
    /\ cmd = Pipeline
    /\ pc = "after_run"
    /\ stage = 3
    /\ LET res == Unwrap(results[3])
           prev == Unwrap(results[2]) IN
       /\ events' = IF ~res.ok
                    THEN Append(Append(events,
                             TaskError("context-updater", None, res.val, 3)),
                         AgentsCompleted)
                    ELSE Append(events, AgentsCompleted)
       /\ ret' = Some(IF prev.ok THEN Ok("()") ELSE Err(prev.val))
    /\ pc' = "done"
    /\ UNCHANGED <<cmd, stage, env, child, pipes, readers, results, attempted,
                   sessionVars, managerVars, watcherVars, gitVars, storageVars, overlapVars>>

ContextReturned ==
    /\ cmd = Pipeline
    /\ pc = "after_run"
    /\ stage = 3
    /\ LET res == Unwrap(results[3]) IN
       /\ events' = IF ~res.ok
                    THEN Append(Append(events,
                             TaskError("context-updater", None, res.val, 3)),
                         AgentsCompleted)
                    ELSE Append(events, AgentsCompleted)
       /\ ret' = Some(IF res.ok THEN Ok("()") ELSE Err(res.val))
    /\ pc' = "done"
    /\ UNCHANGED <<cmd, stage, env, child, pipes, readers, results, attempted,
                   sessionVars, managerVars, watcherVars, gitVars, storageVars, overlapVars>>

PipelineNext ==
    \/ RunnerNext
    \/ AgentsStart
    \/ RunAgent
    \/ TaggerReturned
    \/ ActionsReturned
    \/ ContextReturned

(***************************************************************************)
(*       session/tracker.rs, commands/session.rs : the SessionManager      *)
(***************************************************************************)

\* SessionManager::new
ManagerNew(config) == [current |-> None, config |-> config]

\* Sessions the frontend passes to start_session_tracking as
\* existing_session: what load_session_metadata returned for the note
ExistingSessions ==
    {SessionFromEnded(p, 0, e, 0, c, None) :
        p \in Notes, e \in {0, 1}, c \in {0, MaxAnnotations - 1}}

\* SessionManager::open_note
OpenNote_keepsActive(m, path, existing) ==
    IF IsSome(m.current) /\ Unwrap(m.current).state = Active THEN m
    ELSE [m EXCEPT !.current =
             IF IsSome(existing) THEN existing ELSE Some(SessionNew(path))]

OpenNote(m, path, existing) ==
    [m EXCEPT !.current =
        IF IsSome(existing) THEN existing ELSE Some(SessionNew(path))]

\* SessionManager::close_note; t is the Utc::now() of Session::end.  The
\* operators for methods that return a value pair the new manager with it.
CloseNote_noEnd(m, t) ==
    IF IsSome(m.current)
    THEN [manager |-> [m EXCEPT !.current = None], ret |-> m.current]
    ELSE [manager |-> m, ret |-> None]

CloseNote(m, t) ==
    IF IsSome(m.current)
    THEN [manager |-> [m EXCEPT !.current = None],
          ret |-> Some(SessionEnd(Unwrap(m.current), t))]
    ELSE [manager |-> m, ret |-> None]

\* SessionManager::record_edit
ManagerRecordEdit(m, t, t2) ==
    IF IsSome(m.current)
    THEN [m EXCEPT !.current = Some(SessionRecordEdit(Unwrap(m.current), t, t2))]
    ELSE m

\* SessionManager::end_session: returns current.clone()
ManagerEndSession(m, t) ==
    IF IsSome(m.current)
    THEN LET s == SessionEnd(Unwrap(m.current), t) IN
         [manager |-> [m EXCEPT !.current = Some(s)], ret |-> Some(s)]
    ELSE [manager |-> m, ret |-> None]

\* SessionManager::check_timeouts
ManagerCheckTimeouts_returnsEnded(m, t, t2) ==
    IF IsSome(m.current)
    THEN LET r == SessionCheckTimeouts(Unwrap(m.current), m.config, t, t2) IN
         [manager |-> [m EXCEPT !.current = Some(r.session)],
          ret |-> IF r.session.state = Ended THEN Some(r.session) ELSE None]
    ELSE [manager |-> m, ret |-> None]

ManagerCheckTimeouts(m, t, t2) ==
    IF IsSome(m.current)
    THEN LET r == SessionCheckTimeouts(Unwrap(m.current), m.config, t, t2) IN
         [manager |-> [m EXCEPT !.current = Some(r.session)],
          ret |-> IF r.ret THEN Some(r.session) ELSE None]
    ELSE [manager |-> m, ret |-> None]

\* Session::current_duration_minutes
CurrentDurationMinutes(s, t) ==
    CASE s.state = Active ->
            IF IsSome(s.started_at)
            THEN DurationMinutes(t, Unwrap(s.started_at)) ELSE 0
      [] s.state = Ended -> s.duration_minutes
      [] s.state = Inactive -> 0

\* SessionManager::get_session_info
ManagerGetSessionInfo(m, t) ==
    IF IsSome(m.current)
    THEN LET s == Unwrap(m.current) IN
         Some([note_path |-> s.note_path, state |-> s.state,
               duration_minutes |-> CurrentDurationMinutes(s, t),
               annotation_count |-> s.annotation_count,
               started_at |-> s.started_at, ended_at |-> s.ended_at])
    ELSE None

\* The body of update_session_config: *manager = SessionManager::new(..)
ReplaceManager(m, config) == ManagerNew(config)

\* Whether a call of the method reads the clock a second time
EndsNow(m, t) ==
    /\ IsSome(m.current)
    /\ SessionCheckTimeouts(Unwrap(m.current), m.config, t, t).ret

StartsNow(m) == IsSome(m.current) /\ Unwrap(m.current).state = Inactive

\* The annotation counter stays within the bound of the model
CanRecordEdit(m) ==
    (IsSome(m.current) /\ Unwrap(m.current).state = Ended) =>
        Unwrap(m.current).annotation_count < MaxAnnotations

NoArgs == [path |-> "", existing |-> None, cfg |-> NoCfg]

MgrOp(name, args, t, t2, r) ==
    [op |-> name, args |-> args, t |-> t, t2 |-> t2, ret |-> r]

ManagerInit ==
    /\ manager \in {ManagerNew(c) : c \in Configs}
    /\ mgrOp = MgrOp("new", NoArgs, 0, 0, None)
    /\ mgrPre = manager
    /\ now \in Times

ManagerIdle ==
    /\ manager = ManagerNew(NoCfg)
    /\ mgrOp = MgrOp("new", NoArgs, 0, 0, None)
    /\ mgrPre = manager

---------------------------------------------------------------------------
\* The session commands of commands/session.rs, called one at a time.  Each
\* locks SessionState's mutex, calls the manager's method and returns.

MgrUnchanged ==
    UNCHANGED <<session, lastOp, pre, taskVars, threads, locks, watcherVars, gitVars, storageVars, overlapVars>>

\* start_session_tracking(note_path, existing_session)
StartSessionTracking ==
    /\ \E p \in Notes, ex \in {None} \cup {Some(s) : s \in ExistingSessions} :
        /\ mgrPre' = manager
        /\ manager' = OpenNote(manager, p, ex)
        /\ mgrOp' = MgrOp("open_note",
                          [path |-> p, existing |-> ex, cfg |-> NoCfg],
                          now, now, None)
    /\ UNCHANGED now
    /\ MgrUnchanged

\* stop_session_tracking()
StopSessionTracking ==
    /\ LET r == CloseNote(manager, now) IN
        /\ mgrPre' = manager
        /\ manager' = r.manager
        /\ mgrOp' = MgrOp("close_note", NoArgs, now, now, r.ret)
    /\ UNCHANGED now
    /\ MgrUnchanged

\* record_edit()
RecordEditCommand ==
    /\ CanRecordEdit(manager)
    /\ \E t2 \in IF StartsNow(manager) THEN LaterReads(now) ELSE {now} :
        /\ mgrPre' = manager
        /\ manager' = ManagerRecordEdit(manager, now, t2)
        /\ mgrOp' = MgrOp("record_edit", NoArgs, now, t2, None)
        /\ now' = t2
    /\ MgrUnchanged

\* end_session()
EndSession ==
    /\ LET r == ManagerEndSession(manager, now) IN
        /\ mgrPre' = manager
        /\ manager' = r.manager
        /\ mgrOp' = MgrOp("end_session", NoArgs, now, now, r.ret)
    /\ UNCHANGED now
    /\ MgrUnchanged

\* check_session_timeouts()
CheckSessionTimeouts ==
    /\ \E t2 \in IF EndsNow(manager, now) THEN LaterReads(now) ELSE {now} :
        LET r == ManagerCheckTimeouts(manager, now, t2) IN
        /\ mgrPre' = manager
        /\ manager' = r.manager
        /\ mgrOp' = MgrOp("check_timeouts", NoArgs, now, t2, r.ret)
        /\ now' = t2
    /\ MgrUnchanged

\* get_session_info()
GetSessionInfo ==
    /\ mgrPre' = manager
    /\ mgrOp' = MgrOp("get_session_info", NoArgs, now, now,
                      ManagerGetSessionInfo(manager, now))
    /\ UNCHANGED <<manager, now>>
    /\ MgrUnchanged

\* update_session_config(inactivity_timeout_minutes, max_duration_minutes)
UpdateSessionConfig ==
    /\ \E c \in Configs :
        /\ mgrPre' = manager
        /\ manager' = ReplaceManager(manager, c)
        /\ mgrOp' = MgrOp("update_session_config",
                          [path |-> "", existing |-> None, cfg |-> c],
                          now, now, None)
    /\ UNCHANGED now
    /\ MgrUnchanged

\* Time passes between two commands
ManagerClockTick ==
    /\ now < MaxTime
    /\ now' = now + 1
    /\ mgrPre' = manager
    /\ mgrOp' = MgrOp("clock", NoArgs, now, now + 1, None)
    /\ UNCHANGED manager
    /\ MgrUnchanged

ManagerNext ==
    \/ StartSessionTracking
    \/ StopSessionTracking
    \/ RecordEditCommand
    \/ EndSession
    \/ CheckSessionTimeouts
    \/ GetSessionInfo
    \/ UpdateSessionConfig
    \/ ManagerClockTick

---------------------------------------------------------------------------
\* The session commands called from several threads.  A command locks
\* SessionState's Mutex<SessionManager> (the outer mutex); the method it
\* calls locks SessionManager.current (the inner mutex).  Both guards are
\* dropped when the method and the command return.

NumThreads == 2
MaxThreadTime == 1   \* ticks of the clock while the threads run
Threads == 1..NumThreads

ManagerMethods ==
    {"open_note", "close_note", "record_edit", "end_session",
     "check_timeouts", "get_session_info"}

\* What a call returns and leaves behind when nothing else runs: t is the
\* first Utc::now() of the method, t2 the one read by the start() or end()
\* it calls
Sequential(op, args, m, t, t2) ==
    CASE op = "open_note" ->
            [manager |-> OpenNote(m, args.path, args.existing), ret |-> None]
      [] op = "close_note" -> CloseNote(m, t)
      [] op = "record_edit" ->
            [manager |-> ManagerRecordEdit(m, t, t2), ret |-> None]
      [] op = "end_session" -> ManagerEndSession(m, t)
      [] op = "check_timeouts" -> ManagerCheckTimeouts(m, t, t2)
      [] op = "get_session_info" ->
            [manager |-> m, ret |-> ManagerGetSessionInfo(m, t)]
      [] op = "update_session_config" ->
            [manager |-> ReplaceManager(m, args.cfg), ret |-> None]

\* Mutex::lock returns once no other thread owns the mutex
CanLock_always(owner) == TRUE

CanLock(owner) == owner = 0

ThreadIdle ==
    [pc |-> "idle", op |-> "none", args |-> NoArgs,
     pre |-> ManagerNew(NoCfg), t |-> 0, t2 |-> 0,
     post |-> ManagerNew(NoCfg), ret |-> None]

ThreadsIdle ==
    /\ threads = [th \in Threads |-> ThreadIdle]
    /\ locks = [outer |-> 0, inner |-> 0]

\* Arguments the threads pass: no restored session, and thresholds that
\* make both timeouts immediate
ThreadExisting == {None}
ThreadConfigs == {NoCfg}

ThreadsInit ==
    /\ manager \in {ManagerNew(c) : c \in ThreadConfigs}
    /\ mgrOp = MgrOp("new", NoArgs, 0, 0, None)
    /\ mgrPre = manager
    /\ now = 0
    /\ ThreadsIdle

ThreadsUnchanged ==
    UNCHANGED <<session, lastOp, pre, taskVars, mgrOp, mgrPre, watcherVars, gitVars, storageVars, overlapVars>>

\* The frontend invokes a command; Tauri runs it on some thread
Call(th) ==
    /\ threads[th].pc = "idle"
    /\ \E op \in ManagerMethods \cup {"update_session_config"},
          p \in Notes, ex \in ThreadExisting, c \in ThreadConfigs :
        LET args ==
              CASE op = "open_note" ->
                      [path |-> p, existing |-> ex, cfg |-> NoCfg]
                [] op = "update_session_config" ->
                      [path |-> "", existing |-> None, cfg |-> c]
                [] OTHER -> NoArgs
        IN threads' = [threads EXCEPT ![th] =
               [ThreadIdle EXCEPT !.pc = "lock_outer", !.op = op,
                                  !.args = args]]
    /\ UNCHANGED <<manager, now, locks>>
    /\ ThreadsUnchanged

\* session_state.0.lock().unwrap()
LockOuter(th) ==
    /\ threads[th].pc = "lock_outer"
    /\ CanLock(locks.outer)
    /\ threads[th].op = "record_edit" => CanRecordEdit(manager)
    /\ locks' = [locks EXCEPT !.outer = th]
    /\ threads' = [threads EXCEPT ![th].pc =
           IF threads[th].op = "update_session_config"
           THEN "replace" ELSE "lock_inner",
                                  ![th].pre = manager]
    /\ UNCHANGED <<manager, now>>
    /\ ThreadsUnchanged

\* self.current.lock().unwrap(), then the method's first Utc::now()
LockInner(th) ==
    /\ threads[th].pc = "lock_inner"
    /\ CanLock(locks.inner)
    /\ locks' = [locks EXCEPT !.inner = th]
    /\ threads' = [threads EXCEPT ![th].pc = "method", ![th].t = now]
    /\ UNCHANGED <<manager, now>>
    /\ ThreadsUnchanged

\* The rest of the method: the Session is read and written through the
\* inner guard
Method(th) ==
    /\ threads[th].pc = "method"
    /\ LET r == Sequential(threads[th].op, threads[th].args, manager,
                           threads[th].t, now)
       IN /\ manager' = r.manager
          /\ threads' = [threads EXCEPT ![th].pc = "unlock",
                                        ![th].t2 = now,
                                        ![th].post = r.manager,
                                        ![th].ret = r.ret]
    /\ UNCHANGED <<now, locks>>
    /\ ThreadsUnchanged

\* *manager = SessionManager::new(..): the new manager has a new, unlocked
\* inner mutex
Replace(th) ==
    /\ threads[th].pc = "replace"
    /\ LET r == Sequential(threads[th].op, threads[th].args, manager, now, now)
       IN /\ manager' = r.manager
          /\ threads' = [threads EXCEPT ![th].pc = "unlock",
                                        ![th].t = now,
                                        ![th].t2 = now,
                                        ![th].post = r.manager,
                                        ![th].ret = r.ret]
    /\ locks' = [locks EXCEPT !.inner = 0]
    /\ UNCHANGED now
    /\ ThreadsUnchanged

\* The method returns (the inner guard is dropped), then the command (the
\* outer guard is dropped) and its result is handed to the frontend
Unlock(th) ==
    /\ threads[th].pc = "unlock"
    /\ locks' = [outer |-> IF locks.outer = th THEN 0 ELSE locks.outer,
                 inner |-> IF locks.inner = th THEN 0 ELSE locks.inner]
    /\ threads' = [threads EXCEPT ![th] = ThreadIdle]
    /\ UNCHANGED <<manager, now>>
    /\ ThreadsUnchanged

ThreadsClockTick ==
    /\ now < MaxThreadTime
    /\ now' = now + 1
    /\ UNCHANGED <<manager, threads, locks>>
    /\ ThreadsUnchanged

\* The steps a thread takes while it owns the outer mutex
HolderStep(th) ==
    \/ LockInner(th)
    \/ Method(th)
    \/ Replace(th)
    \/ Unlock(th)

ThreadsNext ==
    \/ \E th \in Threads : Call(th)
    \/ \E th \in Threads : LockOuter(th)
    \/ \E th \in Threads : LockInner(th)
    \/ \E th \in Threads : Method(th)
    \/ \E th \in Threads : Replace(th)
    \/ \E th \in Threads : Unlock(th)
    \/ ThreadsClockTick

(***************************************************************************)
(*                   watcher.rs : the filesystem watcher                   *)
(***************************************************************************)

\* Bounds of the watcher model
MaxFsEvents == 2     \* events handed to the callback
MaxStarts == 2       \* calls of ChronicleWatcher::start

\* A path is the sequence of its components
Workspace == <<"ws">>
ChronicleDir == Workspace \o <<".chronicle">>
ProcessedDir == ChronicleDir \o <<"processed">>

\* Paths the watch on .chronicle/ (RecursiveMode::Recursive) reports
WatchedPaths ==
    {ChronicleDir \o <<"tags.json">>,
     ChronicleDir \o <<"actions.json">>,
     ChronicleDir \o <<"links.json">>,
     ChronicleDir \o <<"tags.json.tmp">>,
     ChronicleDir \o <<"processed2", "n.md">>,
     ProcessedDir,
     ProcessedDir \o <<"n.md">>,
     ProcessedDir \o <<"tags.json">>}

\* Paths that take part in renames inside .chronicle/
RenamedPaths ==
    {ChronicleDir \o <<"tags.json">>,
     ChronicleDir \o <<"tags.json.tmp">>,
     ProcessedDir \o <<"n.md">>}

\* notify::Event: a kind and the paths it concerns.  A rename seen whole
\* (Modify(Name(Both))) carries the old and the new path.
EventKinds == {"Create", "Modify", "Remove"}
FsEvents ==
    {[kind |-> "Modify", paths |-> <<p>>] : p \in WatchedPaths}
    \cup {[kind |-> k, paths |-> <<p>>] :
             k \in EventKinds \ {"Modify"}, p \in RenamedPaths \cup {ProcessedDir}}
    \cup {[kind |-> "Modify", paths |-> pq] :
             pq \in {x \in RenamedPaths \X RenamedPaths : x[1] # x[2]}}

TagsUpdated == "chronicle:tags-updated"
ActionsUpdated == "chronicle:actions-updated"
LinksUpdated == "chronicle:links-updated"
ProcessedUpdated == "chronicle:processed-updated"
NotificationNames == {TagsUpdated, ActionsUpdated, LinksUpdated, ProcessedUpdated}

\* Path::file_name
FileName(p) == p[Len(p)]

\* Path::starts_with: base is a prefix of p, component by component
StartsWith_parent(p, base) ==
    /\ Len(p) >= Len(base) - 1
    /\ SubSeq(p, 1, Len(base) - 1) = SubSeq(base, 1, Len(base) - 1)

StartsWith(p, base) ==
    /\ Len(p) >= Len(base)
    /\ SubSeq(p, 1, Len(base)) = base

\* The match on the file name: the notification emitted for one path
Classify_crossWired(p) ==
    CASE FileName(p) = "tags.json" -> Some(ActionsUpdated)
      [] FileName(p) = "actions.json" -> Some(TagsUpdated)
      [] FileName(p) = "links.json" -> Some(LinksUpdated)
      [] OTHER -> IF StartsWith(p, ProcessedDir)
                  THEN Some(ProcessedUpdated) ELSE None

Classify(p) ==
    CASE FileName(p) = "tags.json" -> Some(TagsUpdated)
      [] FileName(p) = "actions.json" -> Some(ActionsUpdated)
      [] FileName(p) = "links.json" -> Some(LinksUpdated)
      [] OTHER -> IF StartsWith(p, ProcessedDir)
                  THEN Some(ProcessedUpdated) ELSE None

\* for path in &event.paths { .. }
RECURSIVE ForEachPath(_)
ForEachPath(paths) ==
    IF paths = <<>> THEN <<>>
    ELSE Classify(Head(paths)) \o ForEachPath(Tail(paths))

\* The closure given to recommended_watcher: the notifications it emits,
\* in order, for what notify hands it
Callback(res) ==
    IF res.ok /\ res.val.kind \in {"Create", "Modify"}
    THEN ForEachPath(res.val.paths)
    ELSE <<>>

\* Number of times x occurs in the sequence
Occurrences(seq, x) == Cardinality({i \in DOMAIN seq : seq[i] = x})

NoFsEvent == [kind |-> "none", paths |-> <<>>]
NotifyError == [kind |-> "error", paths |-> <<>>]

WatcherNew ==
    /\ watch = [inner |-> None, live |-> {}, pending |-> {}, starts |-> 0,
                ret |-> None]
    /\ lastFs = [n |-> 0, res |-> Err(NoFsEvent), notifs |-> <<>>,
                 stale |-> FALSE]
    /\ fsSeen = [p \in WatchedPaths |-> 0]
    /\ emitted = [x \in NotificationNames |-> 0]

WatcherUnchanged ==
    UNCHANGED <<sessionVars, taskVars, managerVars, gitVars, storageVars, overlapVars>>

\* The watchers dropped when slot (an Option<RecommendedWatcher>) is
\* overwritten or taken: dropping a watcher ends its watch
Dropped(slot) == IF IsSome(slot) THEN {Unwrap(slot)} ELSE {}

\* A watcher started after w is watching
Superseded(w) == \E v \in watch.live : v > w

\* ChronicleWatcher::start up to watcher.watch(..): the directory is
\* looked up, a watcher created (watchers are numbered in the order of
\* their creation) and its watch on .chronicle/ begun
WatcherStart ==
    /\ watch.starts < MaxStarts
    /\ \E r \in {Ok("()"),
                 Err("Chronicle directory does not exist"),
                 Err("Failed to create watcher: " \o IoDenied.msg),
                 Err("Failed to watch .chronicle/: " \o IoDenied.msg)} :
        watch' = IF r.ok
                 THEN [watch EXCEPT !.starts = @ + 1,
                                    !.live = @ \cup {watch.starts + 1},
                                    !.pending = @ \cup {watch.starts + 1}]
                 ELSE [watch EXCEPT !.starts = @ + 1, !.ret = Some(r)]
    /\ UNCHANGED <<lastFs, fsSeen, emitted>>
    /\ WatcherUnchanged

\* The rest of ChronicleWatcher::start: self.inner.lock(), then
\* *guard = Some(watcher), which drops the watcher stored before
WatcherStore ==
    /\ \E w \in watch.pending :
        watch' = [watch EXCEPT !.inner = Some(w),
                               !.live = @ \ Dropped(watch.inner),
                               !.pending = @ \ {w},
                               !.ret = Some(Ok("()"))]
    /\ UNCHANGED <<lastFs, fsSeen, emitted>>
    /\ WatcherUnchanged

\* ChronicleWatcher::stop
WatcherStop ==
    /\ IsSome(watch.inner)
    /\ watch' = [watch EXCEPT !.inner = None,
                              !.live = @ \ Dropped(watch.inner)]
    /\ UNCHANGED <<lastFs, fsSeen, emitted>>
    /\ WatcherUnchanged

\* The thread of a watcher whose watch is on hands an event to the callback
FsEvent ==
    /\ lastFs.n < MaxFsEvents
    /\ \E st \in {Superseded(w) : w \in watch.live}, ev \in FsEvents :
        LET notifs == Callback(Ok(ev)) IN
        /\ lastFs' = [n |-> lastFs.n + 1, res |-> Ok(ev), notifs |-> notifs,
                      stale |-> st]
        /\ fsSeen' = [p \in WatchedPaths |->
               fsSeen[p] + (IF ev.kind \in {"Create", "Modify"}
                            THEN Occurrences(ev.paths, p) ELSE 0)]
        /\ emitted' = [x \in NotificationNames |->
               emitted[x] + Occurrences(notifs, x)]
    /\ UNCHANGED watch
    /\ WatcherUnchanged

\* ... or an error (res is Err): the callback does nothing
FsError ==
    /\ lastFs.n < MaxFsEvents
    /\ \E st \in {Superseded(w) : w \in watch.live} :
        lastFs' = [n |-> lastFs.n + 1, res |-> Err(NotifyError),
                   notifs |-> Callback(Err(NotifyError)),
                   stale |-> st]
    /\ UNCHANGED <<watch, fsSeen, emitted>>
    /\ WatcherUnchanged

WatcherNext ==
    \/ WatcherStart
    \/ WatcherStore
    \/ WatcherStop
    \/ FsEvent
    \/ FsError

(***************************************************************************)
(*        git/repo.rs, commands/git.rs : the semantic commit layer         *)
(***************************************************************************)
MaxCommits == 2
MaxEdits == 1

\* Path::file_stem and Path::extension of the file names of the model
NameParts ==
    (".gitignore" :> <<".gitignore", "">>) @@ ("a.md" :> <<"a", "md">>)
    @@ ("b.md" :> <<"b", "md">>) @@ ("b-1.md" :> <<"b-1", "md">>)
    @@ ("a.json" :> <<"a", "json">>) @@ ("b.json" :> <<"b", "json">>)
    @@ ("b-1.json" :> <<"b-1", "json">>) @@ ("x.tmp" :> <<"x", "tmp">>)
FileStem(p) == NameParts[FileName(p)][1]
Extension(p) == NameParts[FileName(p)][2]
Parent(p) == SubSeq(p, 1, Len(p) - 1)

\* storage::get_meta_path: <parent>/.meta/<stem>.json
GetMetaPath(note_path) ==
    Parent(note_path) \o <<".meta", FileStem(note_path) \o ".json">>

\* Paths of the workspace, relative to it
Gitignore == <<".gitignore">>
NoteA == <<"a.md">>
TmpFile == <<"x.tmp">>
RepoPaths == {Gitignore, NoteA, TmpFile}

\* File contents; Absent: no file at the path.  A path outside RepoPaths
\* (the note's metadata file) has no file in this model.
Absent == "absent"
DefaultGitignore == "# Chronicle app state (not content) ... *.tmp *.temp"
Contents(p) == IF p = NoteA THEN {"v1", "v2"} ELSE {"v1"}
EmptyTree == [p \in RepoPaths |-> Absent]
Exists(wt, p) == p \in RepoPaths /\ wt[p] # Absent

\* The paths of the model that the patterns of DEFAULT_GITIGNORE match
\* (*.tmp), when that is what .gitignore holds
Ignored(p, wt) == wt[Gitignore] = DefaultGitignore /\ Extension(p) = "tmp"

\* strip_prefix(workspace) of a path that starts with it, else the path
Relative(workspace, p) ==
    IF StartsWith(p, workspace)
    THEN SubSeq(p, Len(workspace) + 1, Len(p))
    ELSE p

RECURSIVE RelativeSet(_)
RelativeSet(files) ==
    IF files = <<>> THEN {}
    ELSE {Relative(Workspace, Head(files))} \cup RelativeSet(Tail(files))

\* The loop of commit_files: index.add_path for each given path that
\* exists on disk
RECURSIVE Stage(_, _, _)
Stage(index, wt, files) ==
    IF files = <<>> THEN index
    ELSE LET relative_path == Relative(Workspace, Head(files)) IN
         Stage(IF Exists(wt, relative_path)
               THEN [index EXCEPT ![relative_path] = wt[relative_path]]
               ELSE index,
               wt, Tail(files))

\* index.add_all(["*"], DEFAULT): every path that differs between index
\* and working tree is added, or removed when its file is gone; untracked
\* files that .gitignore matches are left out
AddAll_trackedOnly(index, wt) ==
    [p \in RepoPaths |-> IF index[p] = Absent THEN Absent ELSE wt[p]]
AddAll(index, wt) ==
    [p \in RepoPaths |->
        IF index[p] = Absent /\ Ignored(p, wt) THEN Absent ELSE wt[p]]

\* is_git_repo
IsGitRepo_never(r) == FALSE
IsGitRepo(r) == r.git

\* repo.head()?.peel_to_commit()
HeadCommit(r) == IF r.head = 0 THEN Err("UnbornBranch") ELSE Ok(r.head)

\* The parents commit_files gives its commit
CommitParents_none(r) == <<>>
CommitParents(r) ==
    IF HeadCommit(r).ok THEN <<HeadCommit(r).val>> ELSE <<>>

\* repo.commit(Some("HEAD"), ..): the commit is written and the branch HEAD
\* names is moved to it.  A commit is identified by its position in commits.
RepoCommit(r, message, tree, parents) ==
    [r EXCEPT !.commits = Append(@, [tree |-> tree, parents |-> parents,
                                     message |-> message]),
              !.head = Len(r.commits) + 1]

\* format!("{}: {} ({})", commit_type.prefix(), title, detail)
CommitMessage(prefix, title, detail) ==
    prefix \o ": " \o title \o " (" \o detail \o ")"

\* Where a git or storage call of an operation fails: nowhere, before the
\* index is written, or after
GitFaults == {"none", "early", "late"}

\* init_or_open_repo, the branch that initialises: Repository::init,
\* create_default_gitignore, create_initial_commit
InitRepo(r, wt, fault) ==
    LET inited == [r EXCEPT !.git = TRUE]
        written == IF wt[Gitignore] = Absent
                   THEN [wt EXCEPT ![Gitignore] = DefaultGitignore]
                   ELSE wt
        staged == [inited EXCEPT !.index[Gitignore] = written[Gitignore]]
    IN  CASE fault = "init" ->
               [repo |-> r, tree |-> wt, ret |-> Err("Git")]
          [] fault = "gitignore" ->
               [repo |-> inited, tree |-> wt, ret |-> Err("Storage")]
          [] fault = "early" ->
               [repo |-> inited, tree |-> written, ret |-> Err("Git")]
          [] fault = "late" ->
               [repo |-> staged, tree |-> written, ret |-> Err("Git")]
          [] OTHER ->
               [repo |-> RepoCommit(staged, "Initial commit: Chronicle workspace",
                                    staged.index, <<>>),
                tree |-> written, ret |-> Ok(1)]

\* init_or_open_repo
InitOrOpen(r, wt, fault) ==
    IF IsGitRepo(r)
    THEN [repo |-> r, tree |-> wt, ret |-> Ok(r.head)]
    ELSE InitRepo(r, wt, fault)

\* commit_files: Ok carries the new commit
CommitFilesOp(r, wt, files, fault) ==
    IF ~IsGitRepo(r) THEN [repo |-> r, ret |-> Err("RepoNotFound")]
    ELSE LET staged == [r EXCEPT !.index = Stage(r.index, wt, files)] IN
         CASE fault = "early" -> [repo |-> r, ret |-> Err("Git")]
           [] fault = "late" -> [repo |-> staged, ret |-> Err("Git")]
           [] OTHER ->
                [repo |-> RepoCommit(staged,
                                     CommitMessage("session", "T", "5m"),
                                     staged.index, CommitParents(r)),
                 ret |-> Ok(Len(r.commits) + 1)]

\* commit_snapshot
CommitSnapshotOp(r, wt, fault) ==
    IF ~IsGitRepo(r) THEN [repo |-> r, ret |-> Err("RepoNotFound")]
    ELSE LET staged == [r EXCEPT !.index = AddAll(r.index, wt)] IN
         CASE fault = "early" -> [repo |-> r, ret |-> Err("Git")]
           [] fault = "late" \/ ~HeadCommit(r).ok ->
                [repo |-> staged, ret |-> Err("Git")]
           [] OTHER ->
                [repo |-> RepoCommit(staged, "snapshot: " \o "T",
                                     staged.index, <<HeadCommit(r).val>>),
                 ret |-> Ok(Len(r.commits) + 1)]

NoRepo == [git |-> FALSE, index |-> EmptyTree, commits |-> <<>>, head |-> 0]
NoGitOp ==
    [name |-> "none", files |-> {}, existed |-> {}, fault |-> "none",
     ret |-> Err("none"), pre |-> [repo |-> NoRepo, tree |-> EmptyTree]]
GitOp(name, files, fault, r) ==
    [name |-> name, files |-> files,
     existed |-> {p \in files : Exists(worktree.tree, p)},
     fault |-> fault, ret |-> r,
     pre |-> [repo |-> repo, tree |-> worktree.tree]]

\* A workspace directory without a repository; it may hold a note already
GitInit ==
    /\ repo = NoRepo
    /\ \E c \in {Absent, "v1"} :
        worktree = [tree |-> [EmptyTree EXCEPT ![NoteA] = c], edits |-> 0]
    /\ gitOp = NoGitOp

GitIdle ==
    /\ repo = NoRepo
    /\ worktree = [tree |-> EmptyTree, edits |-> 0]
    /\ gitOp = NoGitOp

GitUnchanged ==
    UNCHANGED <<sessionVars, taskVars, managerVars, watcherVars, storageVars, overlapVars>>

\* The faults init_or_open_repo can meet in the state it is called in
InitFaults ==
    IF IsGitRepo(repo) THEN {"none"}
    ELSE {"none", "init", "early", "late"}
         \cup (IF worktree.tree[Gitignore] = Absent THEN {"gitignore"} ELSE {})

InitOrOpenRepo ==
    /\ \E fault \in InitFaults :
        LET out == InitOrOpen(repo, worktree.tree, fault) IN
        /\ repo' = out.repo
        /\ worktree' = [worktree EXCEPT !.tree = out.tree]
        /\ gitOp' = GitOp("init_or_open_repo", {}, fault, out.ret)
    /\ GitUnchanged

\* The lists of paths commit_files is called with
FileLists ==
    {<<>>, <<NoteA>>, <<TmpFile>>}

CommitFiles ==
    /\ Len(repo.commits) < MaxCommits
    /\ \E files \in FileLists, fault \in GitFaults :
        LET out == CommitFilesOp(repo, worktree.tree, files, fault) IN
        /\ IsGitRepo(repo) \/ fault = "none"
        /\ repo' = out.repo
        /\ gitOp' = GitOp("commit_files", RelativeSet(files), fault, out.ret)
    /\ UNCHANGED worktree
    /\ GitUnchanged

\* commands::commit_session: the note and its metadata file, as given or
\* relative to the workspace
CommitSession ==
    /\ Len(repo.commits) < MaxCommits
    /\ \E note \in {Workspace \o NoteA}, fault \in GitFaults :
        LET note_relative == Relative(Workspace, note)
            meta_relative == Relative(Workspace, GetMetaPath(note))
            files == <<note_relative, meta_relative>>
            out == CommitFilesOp(repo, worktree.tree, files, fault)
        IN
        /\ IsGitRepo(repo) \/ fault = "none"
        /\ repo' = out.repo
        /\ gitOp' = GitOp("commit_files", RelativeSet(files), fault, out.ret)
    /\ UNCHANGED worktree
    /\ GitUnchanged

\* commit_snapshot, commands::commit_manual_snapshot
CommitSnapshot ==
    /\ Len(repo.commits) < MaxCommits
    /\ \E fault \in GitFaults :
        LET out == CommitSnapshotOp(repo, worktree.tree, fault) IN
        /\ IsGitRepo(repo) \/ fault = "none"
        /\ HeadCommit(repo).ok \/ fault # "late"
        /\ repo' = out.repo
        /\ gitOp' = GitOp("commit_snapshot", {}, fault, out.ret)
    /\ UNCHANGED worktree
    /\ GitUnchanged

\* A file of the workspace is written, created or deleted by the editor,
\* an agent or the user
WorktreeEdit ==
    /\ worktree.edits < MaxEdits
    /\ \E p \in RepoPaths :
       \E c \in Contents(p) \cup {Absent} :
        /\ worktree.tree[p] # c
        /\ worktree' = [tree |-> [worktree.tree EXCEPT ![p] = c],
                        edits |-> worktree.edits + 1]
    /\ gitOp' = NoGitOp
    /\ UNCHANGED repo
    /\ GitUnchanged

GitNext ==
    \/ InitOrOpenRepo
    \/ CommitFiles
    \/ CommitSession
    \/ CommitSnapshot
    \/ WorktreeEdit

(***************************************************************************)
(*  storage/metadata.rs, storage/naming.rs : metadata files and renames    *)
(***************************************************************************)
MaxConflicts == 100

\* The notes of the workspace and their metadata files
NotePaths ==
    {Workspace \o <<"a.md">>, Workspace \o <<"b.md">>, Workspace \o <<"b-1.md">>}
StoragePaths == NotePaths \cup {GetMetaPath(n) : n \in NotePaths}

\* What a path holds: nothing, a note's text, or a JSON document
NoFile == [kind |-> "absent"]
TextFile(t) == [kind |-> "text", text |-> t]
JsonFile(j) == [kind |-> "json", json |-> j]
PathExists(fs, p) == p \in StoragePaths /\ fs[p] # NoFile

\* Decimal text of a number, as format!("{}") writes it
DigitText == <<"0", "1", "2", "3", "4", "5", "6", "7", "8", "9">>
RECURSIVE ToText(_)
ToText(n) ==
    IF n < 10 THEN DigitText[n + 1]
    ELSE ToText(n \div 10) \o DigitText[(n % 10) + 1]

\* struct SessionMeta: the values save_session_metadata builds from an
\* ended Session
SessionMetas ==
    {[started_at |-> 0, ended_at |-> Some(1), duration_minutes |-> 0,
      annotation_count |-> 0, last_annotation_at |-> None],
     [started_at |-> 0, ended_at |-> Some(2), duration_minutes |-> 1,
      annotation_count |-> 1, last_annotation_at |-> Some(2)]}

\* NoteMeta::new
NoteMetaNew(note_path, t) ==
    [id |-> FileStem(note_path) \o "-" \o ToText(t),
     version |-> 1,
     file |-> [name |-> FileName(note_path), raw_path |-> None,
               created_at |-> t, updated_at |-> t],
     session |-> None]

\* serde_json: an Option is written as null or as its value
JsonOption(o, unused) ==
    IF IsSome(o) THEN [null |-> FALSE, value |-> Unwrap(o)]
    ELSE [null |-> TRUE, value |-> unused]
FromJsonOption(j) == IF j.null THEN None ELSE Some(j.value)

SessionToJson(sm) ==
    [started_at |-> sm.started_at,
     ended_at |-> JsonOption(sm.ended_at, 0),
     duration_minutes |-> sm.duration_minutes,
     annotation_count |-> sm.annotation_count,
     last_annotation_at |-> JsonOption(sm.last_annotation_at, 0)]
SessionFromJson(j) ==
    [started_at |-> j.started_at,
     ended_at |-> FromJsonOption(j.ended_at),
     duration_minutes |-> j.duration_minutes,
     annotation_count |-> j.annotation_count,
     last_annotation_at |-> FromJsonOption(j.last_annotation_at)]

\* serde_json::to_string_pretty(&NoteMeta)
ToJson(meta) ==
    [id |-> meta.id,
     version |-> meta.version,
     file |-> [name |-> meta.file.name,
               raw_path |-> JsonOption(meta.file.raw_path, ""),
               created_at |-> meta.file.created_at,
               updated_at |-> meta.file.updated_at],
     session |-> IF IsSome(meta.session)
                 THEN [null |-> FALSE,
                       value |-> SessionToJson(Unwrap(meta.session))]
                 ELSE [null |-> TRUE, value |-> 0]]

\* serde_json::from_str::<NoteMeta>
FromJson(j) ==
    [id |-> j.id,
     version |-> j.version,
     file |-> [name |-> j.file.name,
               raw_path |-> FromJsonOption(j.file.raw_path),
               created_at |-> j.file.created_at,
               updated_at |-> j.file.updated_at],
     session |-> IF j.session.null THEN None
                 ELSE Some(SessionFromJson(j.session.value))]

\* load_metadata
LoadMetadata(fs, note_path) ==
    LET meta_path == GetMetaPath(note_path) IN
    IF ~PathExists(fs, meta_path) THEN Ok(None)
    ELSE IF fs[meta_path].kind # "json" THEN Err("ParseError")
    ELSE Ok(Some(FromJson(fs[meta_path].json)))

\* save_metadata; failed: ensure_meta_dir or write_file returns an error
SaveMetadata(fs, note_path, meta, failed) ==
    IF failed THEN [files |-> fs, ret |-> Err("WriteFailed")]
    ELSE [files |-> [fs EXCEPT ![GetMetaPath(note_path)] = JsonFile(ToJson(meta))],
          ret |-> Ok("()")]

\* The loop of rename_file that looks for a free <stem>-<counter>.<ext>
RECURSIVE FindCandidate(_, _, _)
FindCandidate(fs, new_path, counter) ==
    LET candidate ==
            Parent(new_path)
            \o <<FileStem(new_path) \o "-" \o ToText(counter) \o "."
                 \o Extension(new_path)>>
    IN  IF ~PathExists(fs, candidate) THEN Ok(candidate)
        ELSE IF counter + 1 > MaxConflicts THEN Err("WriteFailed")
        ELSE FindCandidate(fs, new_path, counter + 1)

\* std::fs::rename(old_path, &final_path)
FsRename(fs, old_path, final_path) ==
    [fs EXCEPT ![final_path] = fs[old_path], ![old_path] = NoFile]

\* rename_file
RenameFileOp(fs, old_path, new_path) ==
    IF old_path = new_path THEN [files |-> fs, ret |-> Ok(old_path)]
    ELSE LET final_path == IF PathExists(fs, new_path)
                           THEN FindCandidate(fs, new_path, 1)
                           ELSE Ok(new_path)
         IN  IF ~final_path.ok THEN [files |-> fs, ret |-> final_path]
             ELSE IF ~PathExists(fs, old_path)
             THEN [files |-> fs, ret |-> Err("WriteFailed")]
             ELSE [files |-> FsRename(fs, old_path, final_path.val),
                   ret |-> final_path]

NoSaved == [n \in NotePaths |-> None]
NoStOp == [name |-> "none", path |-> <<>>, ret |-> Err("none")]

\* A workspace with the note a.md and perhaps b.md, no metadata yet
StorageInit ==
    /\ \E b \in {NoFile, TextFile("b")} :
        disk = [p \in StoragePaths |->
                    IF p = Workspace \o <<"a.md">> THEN TextFile("a")
                    ELSE IF p = Workspace \o <<"b.md">> THEN b
                    ELSE NoFile]
    /\ saved = NoSaved
    /\ stOp = NoStOp

StorageIdle ==
    /\ disk = [p \in StoragePaths |-> NoFile]
    /\ saved = NoSaved
    /\ stOp = NoStOp

StorageUnchanged ==
    UNCHANGED <<sessionVars, taskVars, managerVars, watcherVars, gitVars, overlapVars>>

\* commands::save_session_metadata for an existing note; session_meta is
\* None when the Session given has not ended
SaveSessionMetadata ==
    /\ \E note_path \in {n \in NotePaths : PathExists(disk, n)},
          session_meta \in {None} \cup {Some(sm) : sm \in SessionMetas},
          failed \in BOOLEAN :
        LET loaded == LoadMetadata(disk, note_path)
            meta == UnwrapOr(loaded.val, NoteMetaNew(note_path, 0))
            withSession == IF IsSome(session_meta)
                           THEN [meta EXCEPT !.session = session_meta]
                           ELSE meta
            updated == [withSession EXCEPT !.file.updated_at = 0]
            out == SaveMetadata(disk, note_path, updated, failed)
        IN
        IF ~loaded.ok
        THEN /\ stOp' = [name |-> "save_metadata", path |-> note_path,
                         ret |-> loaded]
             /\ UNCHANGED <<disk, saved>>
        ELSE /\ disk' = out.files
             /\ saved' = IF out.ret.ok /\ IsSome(session_meta)
                         THEN [saved EXCEPT ![note_path] = session_meta]
                         ELSE saved
             /\ stOp' = [name |-> "save_metadata", path |-> note_path,
                         ret |-> out.ret]
    /\ StorageUnchanged

\* load_metadata, commands::load_session_metadata
LoadSessionMetadata ==
    /\ \E note_path \in NotePaths :
        stOp' = [name |-> "load_metadata", path |-> note_path,
                 ret |-> LoadMetadata(disk, note_path)]
    /\ UNCHANGED <<disk, saved>>
    /\ StorageUnchanged

\* commands::rename_file
RenameFile ==
    /\ \E old_path \in NotePaths, new_path \in NotePaths :
        LET out == RenameFileOp(disk, old_path, new_path) IN
        /\ out.ret.ok => out.ret.val \in NotePaths
        /\ disk' = out.files
        /\ saved' = IF out.ret.ok /\ out.ret.val # old_path
                    THEN [saved EXCEPT ![out.ret.val] = saved[old_path],
                                       ![old_path] = None]
                    ELSE saved
        /\ stOp' = [name |-> "rename_file", path |-> old_path, ret |-> out.ret]
    /\ StorageUnchanged

StorageNext ==
    \/ SaveSessionMetadata
    \/ LoadSessionMetadata
    \/ RenameFile

---------------------------------------------------------------------------
(***************************************************************************)
(*     commands/claude.rs : run_background_agents invoked concurrently     *)
(***************************************************************************)
\* run_background_agents is an async Tauri command (lib.rs:71): every
\* invoke from the frontend is its own future on the runtime, and the
\* command takes no lock and checks no flag before it starts.  Here two
\* invocations run side by side; run_agent is reduced to its call and its
\* return (its steps are the runner's, above).  An invocation yields to
\* the runtime only inside run_agent(..).await, so what lies between two
\* awaits is one step.

Invocations == {"first", "second"}

\* What run_agent returns to run_background_agents
AgentResults == {Ok("result"), Err("error")}

AgentEvent(name, task, i) == [name |-> name, task |-> task, by |-> i]

NotInvoked == [pc |-> "idle", stage |-> 0, ret |-> None]

OverlapInit ==
    /\ agentRuns = [i \in Invocations |-> NotInvoked]
    /\ agentEvents = <<>>

OverlapIdle == OverlapInit

OverlapUnchanged ==
    UNCHANGED <<sessionVars, taskVars, managerVars, watcherVars, gitVars,
                storageVars>>

\* The frontend invokes the command: agents-started is emitted and
\* run_agent is called for the tagger
InvokeBackgroundAgents(i) ==
    /\ agentRuns[i].pc = "idle"
    /\ agentEvents' = Append(agentEvents,
                             AgentEvent("claude:agents-started", "", i))
    /\ agentRuns' = [agentRuns EXCEPT ![i] =
                        [pc |-> "running", stage |-> 1, ret |-> None]]
    /\ OverlapUnchanged

\* The events emitted and the position reached when run_agent returns res
\* for stage s: a failed tagger ends the command, a failed actions agent
\* does not, the context-updater's result is the command's
AfterAgent(i, s, res) ==
    LET failed == IF res.ok THEN <<>>
                  ELSE <<AgentEvent("claude:task-error", AgentName(s), i)>>
        completed == <<AgentEvent("claude:agents-completed", "", i)>>
    IN
    IF s = 1 /\ ~res.ok
    THEN [emits |-> failed \o completed,
          run |-> [pc |-> "done", stage |-> s, ret |-> Some(res)]]
    ELSE IF s < 3
    THEN [emits |-> failed,
          run |-> [pc |-> "running", stage |-> s + 1, ret |-> None]]
    ELSE [emits |-> failed \o completed,
          run |-> [pc |-> "done", stage |-> s,
                   ret |-> Some(IF res.ok THEN Ok("()") ELSE res)]]

\* run_agent(..).await returns in invocation i
AgentReturns(i) ==
    /\ agentRuns[i].pc = "running"
    /\ \E res \in AgentResults :
        LET next == AfterAgent(i, agentRuns[i].stage, res) IN
        /\ agentEvents' = agentEvents \o next.emits
        /\ agentRuns' = [agentRuns EXCEPT ![i] = next.run]
    /\ OverlapUnchanged

OverlapNext ==
    \/ \E i \in Invocations : InvokeBackgroundAgents(i)
    \/ \E i \in Invocations : AgentReturns(i)

---------------------------------------------------------------------------

\* The specifications

SessionSpecInit ==
    SessionInit /\ TaskIdle /\ ManagerIdle /\ ThreadsIdle /\ WatcherNew /\ GitIdle
    /\ StorageIdle /\ OverlapIdle
SessionSpec == SessionSpecInit /\ [][SessionNext]_vars

TaskInit ==
    /\ TaskInitWith(StandaloneCommands, OutScripts(MaxLines), ErrScripts(MaxLines))
    /\ SessionIdle /\ ManagerIdle /\ ThreadsIdle /\ WatcherNew /\ GitIdle
    /\ StorageIdle /\ OverlapIdle
TaskSpec == TaskInit /\ [][TaskNext]_vars

\* In the pipeline model the tool writes to stdout only; stderr carries
\* the shell's message when the tool is missing on Windows
PipelineInit ==
    /\ TaskInitWith({Pipeline}, OutScripts(MaxStageLines), {<<>>})
    /\ SessionIdle /\ ManagerIdle /\ ThreadsIdle /\ WatcherNew /\ GitIdle
    /\ StorageIdle /\ OverlapIdle
PipelineSpec == PipelineInit /\ [][PipelineNext]_vars

\* run_claude_task, which is run_claude_streaming and nothing else, under
\* the scheduling the code relies on: the tokio runtime polls a task that
\* can make progress (the two reader tasks spawned at claude.rs:108 and
\* 127, the command's own future at its three awaits), and a returned
\* command is reported to its caller.  Nothing is assumed about the spawned
\* process: it may stop writing and never exit.  child.wait() may fail
\* instead of returning a status.  The process writes nothing to a stream
\* or MaxLines lines, more than the pipe holds.
RunnerInit ==
    /\ TaskInitWith({"run_claude_task"},
                    {<<>>, SubSeq(OutText, 1, MaxLines)},
                    {<<>>, SubSeq(ErrText, 1, MaxLines)})
    /\ SessionIdle /\ ManagerIdle /\ ThreadsIdle /\ WatcherNew /\ GitIdle
    /\ StorageIdle /\ OverlapIdle
RunnerTaskNext ==
    \/ RunnerNext
    \/ RunClaudeTaskStart
    \/ RunClaudeTaskFinish
RunnerFairness ==
    /\ WF_vars(RunClaudeTaskStart)
    /\ WF_vars(Spawn)
    /\ WF_vars(Wait)
    /\ WF_vars(JoinStdout)
    /\ WF_vars(JoinStderr)
    /\ WF_vars(RunClaudeTaskFinish)
    /\ \A s \in Stages : WF_vars(ReadStdout(s)) /\ WF_vars(ReadStderr(s))
RunnerFairSpec == RunnerInit /\ [][RunnerTaskNext]_vars /\ RunnerFairness

ManagerSpecInit ==
    ManagerInit /\ SessionValueIdle /\ TaskIdle /\ ThreadsIdle /\ WatcherNew /\ GitIdle
    /\ StorageIdle /\ OverlapIdle
ManagerSpec == ManagerSpecInit /\ [][ManagerNext]_vars

ThreadsSpecInit ==
    ThreadsInit /\ SessionValueIdle /\ TaskIdle /\ WatcherNew /\ GitIdle
    /\ StorageIdle /\ OverlapIdle
ThreadsSpec == ThreadsSpecInit /\ [][ThreadsNext]_vars

WatcherSpecInit ==
    /\ WatcherNew /\ SessionIdle /\ TaskIdle /\ ManagerIdle /\ ThreadsIdle
    /\ GitIdle /\ StorageIdle /\ OverlapIdle
WatcherSpec == WatcherSpecInit /\ [][WatcherNext]_vars

GitSpecInit ==
    /\ GitInit /\ SessionIdle /\ TaskIdle /\ ManagerIdle /\ ThreadsIdle
    /\ WatcherNew /\ StorageIdle /\ OverlapIdle
GitSpec == GitSpecInit /\ [][GitNext]_vars

StorageSpecInit ==
    /\ StorageInit /\ SessionIdle /\ TaskIdle /\ ManagerIdle /\ ThreadsIdle
    /\ WatcherNew /\ GitIdle /\ OverlapIdle
StorageSpec == StorageSpecInit /\ [][StorageNext]_vars

OverlapSpecInit ==
    /\ OverlapInit /\ SessionIdle /\ TaskIdle /\ ManagerIdle /\ ThreadsIdle
    /\ WatcherNew /\ GitIdle /\ StorageIdle
OverlapSpec == OverlapSpecInit /\ [][OverlapNext]_vars


(***************************************************************************)
(*                         Properties: the pipeline                        *)
(***************************************************************************)

Returned(s) == IsSome(results[s])
Failed(s) == Returned(s) /\ ~Unwrap(results[s]).ok
Succeeded(s) == Returned(s) /\ Unwrap(results[s]).ok

C2_LaterStagesAlwaysRun ==
    (cmd = Pipeline /\ pc = "done" /\ Succeeded(1)) =>
        /\ attempted = {1, 2, 3}
        /\ Returned(2)
        /\ Returned(3)

C2_Witness ==
    /\ cmd = Pipeline
    /\ pc = "done"
    /\ Succeeded(1)
    /\ Failed(2)
    /\ 3 \in attempted
    /\ Succeeded(3)

\* Invocation s ran its tool to the end and the tool exited non-zero:
\* Ok(ClaudeResult { success: false, .. })
ExitedNonZero(s) == Succeeded(s) /\ ~Unwrap(results[s]).val.success

\* The pipeline has matched on the result of stage s
Handled(s) == Returned(s) /\ (stage > s \/ pc = "done")

ErrorEventFor(s) ==
    \E i \in DOMAIN events :
        /\ events[i].name = "claude:task-error"
        /\ events[i].task = AgentName(s)

\* C12: once the pipeline has dealt with a stage whose tool exited with a
\* non-zero status, it has emitted a claude:task-error event naming that
\* stage.
C12_NonZeroExitSurfaced ==
    cmd = Pipeline =>
        \A s \in Stages : (ExitedNonZero(s) /\ Handled(s)) => ErrorEventFor(s)

\* run_agent returned because the prompt file of stage s could not be read
PromptUnreadable(s) ==
    results[s] = Some(Err("Failed to read " \o AgentName(s) \o " prompt: "
                          \o IoNotFound.msg))

\* C14 as stated: whichever stage's prompt template cannot be read, a
\* finished run has attempted all the other stages.
C14_UnreadablePromptFailsOnlyItsStage ==
    (cmd = Pipeline /\ pc = "done") =>
        \A s \in Stages : PromptUnreadable(s) => attempted = Stages

\* C14, amended: an unreadable prompt of actions or context-updater fails
\* that stage only (every stage of the run is attempted and the failure is
\* reported by a task-error event for that stage); an unreadable prompt of
\* the tagger, the first stage, ends the run with no later stage attempted.
C14_UnreadablePromptAfterFirstStage ==
    (cmd = Pipeline /\ pc = "done") =>
        /\ \A s \in {2, 3} :
              PromptUnreadable(s) => (attempted = Stages /\ ErrorEventFor(s))
        /\ PromptUnreadable(1) => (attempted = {1} /\ ErrorEventFor(1))

\* The actions prompt is unreadable and context-updater still ran and
\* succeeded
C14_Witness ==
    /\ cmd = Pipeline
    /\ pc = "done"
    /\ PromptUnreadable(2)
    /\ attempted = Stages
    /\ Succeeded(3)
    /\ ret = Some(Ok("()"))

AgentsStartedAt == {i \in DOMAIN events : events[i] = AgentsStarted}
AgentsCompletedAt == {i \in DOMAIN events : events[i] = AgentsCompleted}

\* C16: a run emits agents-started once, as its first event and before any
\* stage is attempted, and agents-completed once, when every attempted
\* stage has returned and after every task-error event, whether the run
\* aborted at the tagger or went through all three stages.
C16_BracketsExactlyOnce ==
    cmd = Pipeline =>
        /\ Cardinality(AgentsStartedAt) = (IF pc = "start" THEN 0 ELSE 1)
        /\ attempted # {} => events[1] = AgentsStarted
        /\ Cardinality(AgentsCompletedAt) = (IF pc = "done" THEN 1 ELSE 0)
        /\ pc = "done" =>
              /\ \A s \in attempted : Returned(s)
              /\ \A s \in Stages : s \notin attempted => child[s] = NoChild
              /\ \A i \in DOMAIN events : \A j \in AgentsCompletedAt :
                    events[i].name = "claude:task-error" => i < j

\* The stage-1 abort: started, the tagger's error, completed
C16_Witness ==
    /\ cmd = Pipeline
    /\ pc = "done"
    /\ Failed(1)
    /\ Len(events) = 3
    /\ events[1] = AgentsStarted
    /\ events[2].name = "claude:task-error"
    /\ events[3] = AgentsCompleted

\* The lines of the output-line events of invocation s, in the order they
\* were emitted: those of stdout (is_stderr = FALSE) or those of stderr
OutputEvents(s, is_stderr) ==
    SelectSeq(events, LAMBDA ev : /\ ev.name = "claude:output-line"
                                  /\ ev.inv = s
                                  /\ Unwrap(ev.data).is_stderr = is_stderr)
EmittedLines(s, is_stderr) ==
    [i \in 1..Len(OutputEvents(s, is_stderr)) |->
        Unwrap(OutputEvents(s, is_stderr)[i].data).line]
ErrorEventsFor(s) ==
    {i \in DOMAIN events : /\ events[i].name = "claude:task-error"
                           /\ events[i].inv = s}

\* What the tool writes in this environment
Script == CHOOSE sc \in ChildScripts(env) : TRUE

\* C28: whichever emit calls fail, an invocation that ran to its end
\* returns the result made of the exit status and of all the lines the
\* process wrote; the pipeline attempts the stages and returns the outcome
\* that the stage results dictate; and every notification is attempted
\* once: one output-line per line read, one task-error per failed stage.
C28_EmitFailureChangesNothing ==
    /\ \A s \in Stages :
          /\ Succeeded(s) =>
                Unwrap(results[s]).val =
                    ClaudeResult(child[s].exit_ok, Script.out, Script.err)
          /\ readers[s].out.lines = EmittedLines(s, FALSE)
          /\ readers[s].err.lines = EmittedLines(s, TRUE)
    /\ (cmd = Pipeline /\ pc = "done") =>
          /\ attempted = (IF Failed(1) THEN {1} ELSE Stages)
          /\ ret = Some(IF Failed(1) THEN Err(Unwrap(results[1]).val)
                        ELSE IF Failed(3) THEN Err(Unwrap(results[3]).val)
                        ELSE Ok("()"))
          /\ \A s \in attempted :
                Cardinality(ErrorEventsFor(s)) = (IF Failed(s) THEN 1 ELSE 0)

C28_Witness ==
    /\ cmd = Pipeline
    /\ pc = "done"
    /\ env.emit_fails = EventNames
    /\ attempted = Stages
    /\ Failed(2)
    /\ Succeeded(3)
    /\ Len(EmittedLines(1, FALSE)) = MaxStageLines
    /\ Unwrap(results[1]).val.output = Join(Script.out)

\* C30: the stages are attempted in the order tagger, actions,
\* context-updater, none twice, each only when the ones before it have
\* returned, one invocation at a time; when the run ends every attempted
\* stage has returned (succeeded or failed) and every other stage was
\* never started.
C30_StagesInOrderOnce ==
    cmd = Pipeline =>
        /\ \A s \in attempted : \A t \in 1..(s - 1) :
              t \in attempted /\ Returned(t)
        /\ pc = "agent" => stage \notin attempted
        /\ \A s \in attempted : ~Returned(s) => s = stage
        /\ \A s \in Stages :
              (Returned(s) \/ child[s] # NoChild) => s \in attempted
        /\ pc = "done" =>
              \A s \in Stages :
                 /\ s \in attempted => (Succeeded(s) \/ Failed(s))
                 /\ ~(Succeeded(s) /\ Failed(s))

C30_Witness ==
    /\ cmd = Pipeline
    /\ pc = "done"
    /\ attempted = Stages
    /\ Succeeded(1)
    /\ Succeeded(2)
    /\ Failed(3)

\* Invocation i has emitted agents-started and not yet agents-completed:
\* one of its stages is running
StageRunning(i) == agentRuns[i].pc = "running"

\* C37: between the agents-started of one invocation of
\* run_background_agents and its agents-completed no other invocation has
\* emitted agents-started or runs a stage, and agents-completed is emitted
\* only when no stage of any invocation is running.
C37_PipelineRunsDoNotOverlap ==
    /\ \A i \in Invocations : \A j \in Invocations \ {i} :
          ~(StageRunning(i) /\ StageRunning(j))
    /\ (/\ agentEvents # <<>>
        /\ agentEvents[Len(agentEvents)].name = "claude:agents-completed") =>
          \A i \in Invocations : ~StageRunning(i)

(***************************************************************************)
(*                      Properties: standalone tasks                       *)
(***************************************************************************)

IsStarted(ev) == ev.name = "claude:task-started"
IsOutput(ev) == ev.name = "claude:output-line"
IsTerminal(ev) == ev.name \in {"claude:task-completed", "claude:task-error"}

NumStarted == Cardinality({i \in DOMAIN events : IsStarted(events[i])})
NumTerminal == Cardinality({i \in DOMAIN events : IsTerminal(events[i])})

\* C3: in the events of one task invocation, task-started comes before
\* every output-line and every output-line comes before the terminal
\* task-completed / task-error.
C3_OutputBetweenStartedAndTerminal ==
    \A i \in DOMAIN events : \A j \in DOMAIN events :
        i < j => /\ ~(IsOutput(events[i]) /\ IsStarted(events[j]))
                 /\ ~(IsTerminal(events[i]) /\ IsOutput(events[j]))

\* C4: once a command that emitted task-started has returned, it has
\* emitted exactly one terminal event; task-started is the first event and
\* the terminal event the last.
C4_ExactlyOneTerminal ==
    (pc = "done" /\ NumStarted > 0) =>
        /\ NumTerminal = 1
        /\ IsStarted(events[1])
        /\ IsTerminal(events[Len(events)])

OsMessages == {IoNotFound.msg, IoDenied.msg, IoBadDir.msg}

SpawnFailed(s) == Returned(s) /\ child[s].state = "none"

\* C10: an invocation made while the claude binary is missing (and nothing
\* else is wrong) returns the tool-not-installed error; a spawn that fails
\* while the binary is there returns "Failed to run Claude Code: <os
\* message>".
C10_MissingToolIsNotInstalled ==
    (cmd \in StandaloneCommands /\ Returned(1)) =>
        /\ (~env.installed /\ env.cwd_exists) =>
              results[1] = Some(Err(NotInstalledMsg))
        /\ (env.installed /\ SpawnFailed(1)) =>
              \E m \in OsMessages :
                  results[1] = Some(Err("Failed to run Claude Code: " \o m))

\* C13: a standalone task emits claude:task-completed only for a result
\* with success = true; a tool that exited non-zero is reported by
\* claude:task-error.
C13_CompletedOnlyOnSuccess ==
    cmd \in StandaloneCommands =>
        \A i \in DOMAIN events :
            events[i].name = "claude:task-completed" =>
                Unwrap(events[i].data).success

\* The stderr lines the process of this run writes before it exits
StderrScript == (CHOOSE sc \in ChildScripts(env) : TRUE).err

\* C11 as stated: a run whose process exited successfully after writing to
\* stderr returns success = true together with error = Some(the stderr
\* text).
C11_SuccessWithStderrText ==
    (cmd \in StandaloneCommands /\ Succeeded(1) /\ child[1].exit_ok
         /\ StderrScript # <<>>) =>
        /\ Unwrap(results[1]).val.success
        /\ Unwrap(results[1]).val.error = Some(Join(StderrScript))

\* C11, amended: success is the exit status alone, whatever was written to
\* stdout and stderr; a successful process whose stderr lines join to a
\* non-empty text returns success = true together with error = Some(that
\* text).  (Stderr consisting of one empty line joins to "" and gives
\* error = None.)
C11_SuccessIsExitStatus ==
    (cmd \in StandaloneCommands /\ Succeeded(1)) =>
        LET r == Unwrap(results[1]).val IN
        /\ r.success = child[1].exit_ok
        /\ (child[1].exit_ok /\ Join(StderrScript) # "") =>
              (r.success /\ r.error = Some(Join(StderrScript)))

C11_Witness ==
    /\ cmd \in StandaloneCommands
    /\ Succeeded(1)
    /\ child[1].exit_ok
    /\ StderrScript = <<"e", "f">>
    /\ Unwrap(results[1]).val.success
    /\ Unwrap(results[1]).val.error = Some("e\nf")

StdoutBlocked(s) ==
    /\ child[s].state = "running"
    /\ child[s].out # <<>>
    /\ Len(pipes[s].out) >= PipeCapacity
StderrBlocked(s) ==
    /\ child[s].state = "running"
    /\ child[s].err # <<>>
    /\ Len(pipes[s].err) >= PipeCapacity

\* Both readers of invocation s have seen the end of their stream
Drained(s) ==
    /\ readers[s].out.state = "done"
    /\ readers[s].err.state = "done"
    /\ pipes[s].out = <<>>
    /\ pipes[s].err = <<>>

\* run_claude_streaming is at one of its three awaits
Awaiting == pc \in {"wait", "join_stdout", "join_stderr"}

StderrLines == readers[1].err.lines

\* C32 as stated: the result's error is None exactly when no line was read
\* from stderr, and otherwise Some of the lines joined by newline.
C32_ErrorNoneIffNoLines ==
    (cmd \in StandaloneCommands /\ Succeeded(1)) =>
        LET r == Unwrap(results[1]).val IN
        /\ r.error = None <=> StderrLines = <<>>
        /\ StderrLines # <<>> => r.error = Some(Join(StderrLines))

\* C32, amended: the result's error is None exactly when the lines read
\* from stderr, joined by newline, form the empty string - no line was
\* read, or one line and that line is empty - and otherwise Some of the
\* joined text; the lines read are all the lines the process wrote.
C32_ErrorIsJoinedStderr ==
    (cmd \in StandaloneCommands /\ Succeeded(1)) =>
        LET r == Unwrap(results[1]).val IN
        /\ StderrLines = StderrScript
        /\ r.error = None <=> StderrLines \in {<<>>, <<"">>}
        /\ r.error # None => r.error = Some(Join(StderrLines))
        /\ r.error # Some("")

\* One empty line was read from stderr and the error is None
C32_Witness ==
    /\ cmd \in StandaloneCommands
    /\ Succeeded(1)
    /\ StderrLines = <<"">>
    /\ Unwrap(results[1]).val.error = None

(***************************************************************************)
(*                     Properties: the SessionManager                      *)
(***************************************************************************)

\* C17: open_note makes the manager's current Session the one built from
\* its arguments (existing_session, or a new Inactive Session) whatever
\* the previous one was, and returns nothing: a previous Active Session is
\* not ended and reaches no caller.
C17_OpenNoteReplaces ==
    mgrOp.op = "open_note" =>
        /\ manager.current =
               (IF IsSome(mgrOp.args.existing) THEN mgrOp.args.existing
                ELSE Some(SessionNew(mgrOp.args.path)))
        /\ Unwrap(manager.current).state # Active
        /\ manager.config = mgrPre.config
        /\ mgrOp.ret = None

\* An Active session with an edit on record is replaced by a new one
C17_Witness ==
    /\ mgrOp.op = "open_note"
    /\ IsSome(mgrPre.current)
    /\ Unwrap(mgrPre.current).state = Active
    /\ Unwrap(mgrPre.current).last_edit_at = Some(1)
    /\ manager.current = Some(SessionNew("note.md"))

Holding == {"lock_inner", "method", "replace", "unlock"}

\* C18: a command runs atomically: from the moment it owns the outer
\* mutex until it returns, the manager is what it found (before its
\* method ran) or what the method alone makes of that (after), and the
\* value it returns is the one a call made alone would return; at most
\* one thread is between lock and unlock; a thread that owns the outer
\* mutex never finds the inner one taken and always has a step to take.
C18_CommandsAreAtomic ==
    /\ \A th \in Threads :
          threads[th].pc \in {"lock_inner", "method", "replace"} =>
              manager = threads[th].pre
    /\ \A th \in Threads :
          threads[th].pc = "unlock" =>
              LET r == Sequential(threads[th].op, threads[th].args,
                                  threads[th].pre, threads[th].t,
                                  threads[th].t2)
              IN /\ threads[th].post = r.manager
                 /\ threads[th].ret = r.ret
                 /\ manager = threads[th].post
    /\ Cardinality({th \in Threads : threads[th].pc \in Holding}) <= 1
    /\ \A th \in Threads : threads[th].pc \in Holding <=> locks.outer = th
    /\ \A th \in Threads : threads[th].pc = "lock_inner" => locks.inner = 0
    /\ \A th \in Threads : locks.outer = th => ENABLED HolderStep(th)

\* One thread has changed the Session and not yet unlocked while another
\* waits for the outer mutex
C18_Witness ==
    \E th \in Threads : \E other \in Threads \ {th} :
        /\ threads[th].pc = "unlock"
        /\ threads[th].op = "record_edit"
        /\ threads[th].post # threads[th].pre
        /\ threads[other].pc = "lock_outer"
        /\ threads[other].op = "open_note"

\* C36: update_session_config changes only the two thresholds; the manager
\* holds the same current Session after the call as before it.
C36_ConfigUpdateKeepsSession ==
    mgrOp.op = "update_session_config" =>
        manager = [mgrPre EXCEPT !.config = mgrOp.args.cfg]

\* The state of the current Session, "none" when the manager holds none
CurrentState(m) == IF IsSome(m.current) THEN Unwrap(m.current).state ELSE "none"

\* C38: SessionManager::check_timeouts returns a Session only on the call
\* that moves the current Session from Active to Ended, and then that
\* Session; on a Session that is already Ended (by a timeout, end_session
\* or a restored one), on an Inactive one and with no Session it returns
\* None.  No command other than open_note makes an Ended current Session
\* Active again, so one Session is reported at most once.
C38_TimeoutReportedOnce ==
    /\ mgrOp.op = "check_timeouts" =>
          /\ IsSome(mgrOp.ret) <=>
                 (CurrentState(mgrPre) = Active /\ CurrentState(manager) = Ended)
          /\ IsSome(mgrOp.ret) => mgrOp.ret = manager.current
          /\ CurrentState(mgrPre) # Active =>
                 (mgrOp.ret = None /\ manager = mgrPre)
    /\ (/\ CurrentState(mgrPre) \in {Ended, "none"}
        /\ mgrOp.op \in {"record_edit", "end_session", "check_timeouts",
                         "get_session_info", "close_note", "clock"}) =>
          CurrentState(manager) # Active

\* A later check_timeouts on a Session that has ended, with the
\* max-duration threshold still exceeded: nothing is returned
C38_Witness ==
    /\ mgrOp.op = "check_timeouts"
    /\ CurrentState(mgrPre) = Ended
    /\ MaxDurationReached(Unwrap(mgrPre.current), mgrPre.config, mgrOp.t)
    /\ mgrOp.ret = None
    /\ manager = mgrPre

\* C39: close_note returns the current Session, ended first when it was
\* Active, and leaves the manager without a current Session; with no
\* current Session it returns None.  With no current Session record_edit,
\* end_session and check_timeouts change nothing and return nothing.
C39_CloseNoteTakesSession ==
    /\ mgrOp.op = "close_note" =>
          /\ manager.current = None
          /\ manager.config = mgrPre.config
          /\ IsSome(mgrOp.ret) <=> IsSome(mgrPre.current)
          /\ IsSome(mgrPre.current) =>
                LET before == Unwrap(mgrPre.current)
                    after == Unwrap(mgrOp.ret)
                IN /\ after.state # Active
                   /\ before.state # Active => after = before
                   /\ before.state = Active =>
                         after = [before EXCEPT
                                    !.state = Ended,
                                    !.ended_at = Some(mgrOp.t),
                                    !.duration_minutes = after.duration_minutes]
    /\ (/\ mgrOp.op \in {"record_edit", "end_session", "check_timeouts"}
        /\ mgrPre.current = None) =>
          /\ manager = mgrPre
          /\ mgrOp.ret = None

C39_Witness ==
    /\ mgrOp.op = "close_note"
    /\ CurrentState(mgrPre) = Active
    /\ IsSome(mgrOp.ret)
    /\ Unwrap(mgrOp.ret).state = Ended
    /\ manager.current = None

(***************************************************************************)
(*                   Properties: the filesystem watcher                    *)
(***************************************************************************)

IndexFiles == {"tags.json", "actions.json", "links.json"}

NotificationOf(f) ==
    CASE f = "tags.json" -> TagsUpdated
      [] f = "actions.json" -> ActionsUpdated
      [] f = "links.json" -> LinksUpdated

\* The path is .chronicle/processed or lies below it
UnderProcessed(p) ==
    /\ Len(p) >= 3
    /\ p[1] = "ws" /\ p[2] = ".chronicle" /\ p[3] = "processed"

\* The last thing handed to the callback was a Create or Modify event
LastIsChange ==
    /\ lastFs.res.ok
    /\ lastFs.res.val.kind \in {"Create", "Modify"}

LastPaths == lastFs.res.val.paths

\* Create / Modify events seen so far that carried a path of the set
RECURSIVE SeenIn(_)
SeenIn(S) ==
    IF S = {} THEN 0
    ELSE LET p == CHOOSE x \in S : TRUE IN fsSeen[p] + SeenIn(S \ {p})

\* C19 as stated: a Create / Modify event that concerns a file named
\* tags.json (actions.json, links.json) makes the callback emit exactly one
\* notification, the one of that index.
C19_OneNotificationPerEvent ==
    LastIsChange =>
        \A f \in IndexFiles :
            (\E i \in DOMAIN LastPaths : FileName(LastPaths[i]) = f) =>
                lastFs.notifs = <<NotificationOf(f)>>

\* C19, amended: the callback emits one notification per path of the
\* event: for each index, as many of its notifications as the event has
\* paths with that file name, never another index's for such a path, with
\* no deduplication over time.  An event with a single path named
\* tags.json gives exactly one tags-updated and nothing else.
C19_OneNotificationPerPath ==
    /\ LastIsChange =>
          /\ \A f \in IndexFiles :
                Occurrences(lastFs.notifs, NotificationOf(f)) =
                    Cardinality({i \in DOMAIN LastPaths :
                                    FileName(LastPaths[i]) = f})
          /\ \A f \in IndexFiles :
                (Len(LastPaths) = 1 /\ FileName(LastPaths[1]) = f) =>
                    lastFs.notifs = <<NotificationOf(f)>>
    /\ \A f \in IndexFiles :
          emitted[NotificationOf(f)] =
              SeenIn({p \in WatchedPaths : FileName(p) = f})

\* The second Modify of .chronicle/tags.json is notified like the first
C19_Witness ==
    /\ LastIsChange
    /\ lastFs.res.val.kind = "Modify"
    /\ LastPaths = <<ChronicleDir \o <<"tags.json">>>>
    /\ lastFs.notifs = <<TagsUpdated>>
    /\ fsSeen[ChronicleDir \o <<"tags.json">>] = 2
    /\ emitted[TagsUpdated] = 2

\* C20: for a path of a Create / Modify event whose file name is not an
\* index name, processed-updated is emitted exactly when the path is at or
\* below .chronicle/processed and nothing is emitted otherwise; events of
\* other kinds and errors emit nothing; the notifications are not
\* coalesced: their number is the number of such events on such paths.
C20_ProcessedIffUnderProcessed ==
    /\ LastIsChange =>
          /\ Occurrences(lastFs.notifs, ProcessedUpdated) =
                Cardinality({i \in DOMAIN LastPaths :
                                /\ FileName(LastPaths[i]) \notin IndexFiles
                                /\ UnderProcessed(LastPaths[i])})
          /\ (\A i \in DOMAIN LastPaths :
                   /\ FileName(LastPaths[i]) \notin IndexFiles
                   /\ ~UnderProcessed(LastPaths[i])) => lastFs.notifs = <<>>
    /\ ~LastIsChange => lastFs.notifs = <<>>
    /\ emitted[ProcessedUpdated] =
          SeenIn({p \in WatchedPaths :
                     FileName(p) \notin IndexFiles /\ UnderProcessed(p)})

\* Two Modify events on .chronicle/processed/n.md, two notifications
C20_Witness ==
    /\ LastIsChange
    /\ LastPaths = <<ProcessedDir \o <<"n.md">>>>
    /\ lastFs.notifs = <<ProcessedUpdated>>
    /\ fsSeen[ProcessedDir \o <<"n.md">>] = 2
    /\ emitted[ProcessedUpdated] = 2

\* C21: at most one watcher has its watch on, and no event is handed to
\* the callback by a watcher while one started after it is watching.
C21_AtMostOneWatch ==
    /\ Cardinality(watch.live) <= 1
    /\ lastFs.n > 0 => ~lastFs.stale

(***************************************************************************)
(*                      Properties: the commit layer                       *)
(***************************************************************************)
\* The last git operation created a commit; that commit; the tree of its
\* parent (the empty tree when it has none); the paths where they differ
MadeCommit == Len(repo.commits) = Len(gitOp.pre.repo.commits) + 1
NewCommit == repo.commits[Len(repo.commits)]
ParentTree(c) ==
    IF c.parents = <<>> THEN EmptyTree ELSE repo.commits[c.parents[1]].tree
Delta(c) == {p \in RepoPaths : c.tree[p] # ParentTree(c)[p]}
InitialMessage == "Initial commit: Chronicle workspace"
Initialised(r) == r.commits # <<>> /\ r.commits[1].message = InitialMessage

\* C22: the commit made by a successful commit_files differs from its
\* parent's tree only at given paths that existed on disk at the call:
\* missing paths are skipped and tracked files deleted on disk are kept.
C22_CommitTouchesOnlyGivenFiles ==
    (gitOp.name = "commit_files" /\ gitOp.ret.ok) =>
        /\ MadeCommit
        /\ Delta(NewCommit) \subseteq gitOp.existed
        /\ \A p \in RepoPaths :
            gitOp.pre.tree[p] = Absent =>
                NewCommit.tree[p] = ParentTree(NewCommit)[p]

\* C23: init_or_open_repo called where a repository exists returns it and
\* writes nothing: commits, HEAD and index are as before, and the working
\* tree too (the ignore file is neither created nor rewritten).
C23_InitOrOpenIdempotent ==
    (gitOp.name = "init_or_open_repo" /\ gitOp.pre.repo.git) =>
        /\ gitOp.ret = Ok(gitOp.pre.repo.head)
        /\ repo = gitOp.pre.repo
        /\ worktree.tree = gitOp.pre.tree

C23_Witness ==
    /\ gitOp.name = "init_or_open_repo"
    /\ gitOp.pre.repo.git
    /\ Len(repo.commits) >= 2
    /\ worktree.tree[Gitignore] = Absent

\* C24: in a repository that init_or_open_repo initialised, commit_files
\* given no path that exists on disk succeeds (when no git call of it
\* fails) and its commit has the tree of its parent.
C24_EmptyDeltaCommit ==
    (/\ gitOp.name = "commit_files"
     /\ Initialised(gitOp.pre.repo)
     /\ gitOp.existed = {}
     /\ gitOp.fault = "none") =>
        /\ gitOp.ret.ok
        /\ MadeCommit
        /\ NewCommit.tree = ParentTree(NewCommit)

\* C25: commit_snapshot on a repository without commits returns an error
\* and makes no commit; on one with commits it succeeds (when no git call
\* of it fails), and its commit has the previous tip as sole parent and
\* holds the working tree: every path the ignore file does not match is
\* in the commit as it is on disk, and a path it matches is either left
\* out or as on disk.
C25_SnapshotNeedsParent ==
    gitOp.name = "commit_snapshot" =>
        /\ ~HeadCommit(gitOp.pre.repo).ok =>
              /\ ~gitOp.ret.ok
              /\ repo.commits = gitOp.pre.repo.commits
              /\ repo.head = gitOp.pre.repo.head
        /\ (HeadCommit(gitOp.pre.repo).ok /\ gitOp.fault = "none") =>
              gitOp.ret.ok
        /\ gitOp.ret.ok =>
              /\ MadeCommit
              /\ NewCommit.parents = <<gitOp.pre.repo.head>>
              /\ repo.head = Len(repo.commits)
              /\ \A p \in RepoPaths :
                    \/ NewCommit.tree[p] = gitOp.pre.tree[p]
                    \/ /\ Ignored(p, gitOp.pre.tree)
                       /\ NewCommit.tree[p] = Absent

C25_Witness ==
    /\ gitOp.name = "commit_snapshot"
    /\ gitOp.ret.ok
    /\ gitOp.pre.repo.head = 1
    /\ NewCommit.tree[NoteA] = "v1"
    /\ ParentTree(NewCommit)[NoteA] = Absent
    /\ gitOp.pre.tree[TmpFile] # Absent

\* C26: a commit made by commit_files has the tip at the call as its sole
\* parent, or none in a repository without commits, and HEAD is moved to
\* it; the history is one chain, each commit the parent of the next, one
\* longer per successful call.
C26_LinearHistory ==
    /\ (gitOp.name = "commit_files" /\ gitOp.ret.ok) =>
          /\ MadeCommit
          /\ NewCommit.parents =
                (IF gitOp.pre.repo.head = 0 THEN <<>>
                 ELSE <<gitOp.pre.repo.head>>)
          /\ gitOp.ret = Ok(repo.head)
    /\ repo.head = Len(repo.commits)
    /\ \A i \in 1..Len(repo.commits) :
          repo.commits[i].parents = (IF i = 1 THEN <<>> ELSE <<i - 1>>)

C26_Witness ==
    /\ gitOp.name = "commit_files"
    /\ gitOp.ret.ok
    /\ Len(repo.commits) = MaxCommits
    /\ repo.commits[1].message # InitialMessage
    /\ \A i \in 2..Len(repo.commits) : repo.commits[i].message # "snapshot: T"

\* C40: a commit_files or commit_snapshot that returns an error leaves the
\* repository as it was: no new commit, the same HEAD and the same index.
C40_FailedCommitChangesNothing ==
    (gitOp.name \in {"commit_files", "commit_snapshot"} /\ ~gitOp.ret.ok) =>
        /\ repo.commits = gitOp.pre.repo.commits
        /\ repo.head = gitOp.pre.repo.head
        /\ repo.index = gitOp.pre.repo.index

(***************************************************************************)
(*                      Properties: metadata files                         *)
(***************************************************************************)
\* C27: load_metadata of a note returns the session metadata that was
\* saved for that note, also after rename_file moved the note to the path
\* it is loaded from.
C27_MetadataSurvivesRename ==
    (stOp.name = "load_metadata" /\ IsSome(saved[stOp.path])) =>
        /\ stOp.ret.ok
        /\ IsSome(stOp.ret.val)
        /\ Unwrap(stOp.ret.val).session = saved[stOp.path]

(***************************************************************************)
(*                         Properties: the Session                         *)
(***************************************************************************)

Rank(st) == CASE st = Inactive -> 0 [] st = Active -> 1 [] st = Ended -> 2

\* C5: record_edit, end and check_timeouts never move a Session backwards
\* in Inactive -> Active -> Ended, and leave an Ended session Ended.
C5_NeverBackwards ==
    lastOp.op \in {"record_edit", "end", "check_timeouts"} =>
        /\ Rank(session.state) >= Rank(pre.state)
        /\ pre.state = Ended => session.state = Ended

C5_Witness ==
    /\ lastOp.op = "record_edit"
    /\ pre.state = Ended
    /\ session.state = Ended
    /\ session.annotation_count = pre.annotation_count + 1

\* C6: started_at is set exactly when the state is not Inactive, and
\* ended_at exactly when the state is Ended.
C6_TimestampsMatchState ==
    /\ IsSome(session.started_at) <=> session.state # Inactive
    /\ IsSome(session.ended_at) <=> session.state = Ended

C6_Witness ==
    /\ lastOp.op = "start"
    /\ pre.state = Ended
    /\ session.state = Active
    /\ session.ended_at = None

\* C7: check_timeouts on an Active session returns true and ends it
\* exactly when now - started_at >= max_duration or now - last_edit_at >=
\* inactivity_timeout (inclusive: with a threshold of 0 an elapsed time of
\* 0 is enough); otherwise, and on an Inactive or Ended session, it returns
\* false and changes nothing.
C7_CheckTimeouts ==
    lastOp.op = "check_timeouts" =>
        IF pre.state = Active
        THEN LET due ==
                   \/ lastOp.t - Unwrap(pre.started_at)
                          >= lastOp.cfg.max_duration_minutes * TicksPerMinute
                   \/ lastOp.t - Unwrap(pre.last_edit_at)
                          >= lastOp.cfg.inactivity_timeout_minutes * TicksPerMinute
             IN /\ lastOp.ret <=> due
                /\ due => session.state = Ended
                /\ ~due => session = pre
                /\ (/\ lastOp.cfg.inactivity_timeout_minutes = 0
                    /\ lastOp.t >= Unwrap(pre.last_edit_at)) => lastOp.ret
        ELSE ~lastOp.ret /\ session = pre

\* The inclusive boundary: the inactivity threshold is met exactly, the
\* max-duration threshold is not met
C7_Witness ==
    /\ lastOp.op = "check_timeouts"
    /\ pre.state = Active
    /\ lastOp.t - Unwrap(pre.last_edit_at)
           = lastOp.cfg.inactivity_timeout_minutes * TicksPerMinute
    /\ lastOp.t - Unwrap(pre.started_at)
           < lastOp.cfg.max_duration_minutes * TicksPerMinute
    /\ lastOp.ret
    /\ session.state = Ended

\* C8: record_edit on an Ended session adds one to annotation_count, sets
\* last_annotation_at to now and changes no other field; end and
\* check_timeouts leave the count of an Ended session alone, so k edits
\* after the end add exactly k.
C8_AnnotationOnly ==
    /\ (lastOp.op = "record_edit" /\ pre.state = Ended) =>
          session = [pre EXCEPT !.annotation_count = pre.annotation_count + 1,
                                !.last_annotation_at = Some(lastOp.t)]
    /\ (lastOp.op \in {"end", "check_timeouts"} /\ pre.state = Ended) =>
          session.annotation_count = pre.annotation_count

C8_Witness ==
    /\ lastOp.op = "record_edit"
    /\ pre.state = Ended
    /\ pre.annotation_count = 1
    /\ session.annotation_count = 2
    /\ session.last_annotation_at = Some(lastOp.t)
    /\ pre.last_annotation_at # Some(lastOp.t)

\* C9: end() on a session that is not Active changes no field; on an
\* Active session it moves the state to Ended.
C9_EndOnlyFromActive ==
    lastOp.op = "end" =>
        IF pre.state = Active THEN session.state = Ended ELSE session = pre

\* A second end() at a later instant: ended_at does not move
C9_Witness ==
    /\ lastOp.op = "end"
    /\ pre.state = Ended
    /\ pre.ended_at # Some(lastOp.t)
    /\ session = pre

\* C33: record_edit on an Inactive session moves it to Active and sets
\* started_at and last_edit_at to the same instant, with ended_at unset,
\* duration_minutes = 0 and annotation_count = 0.
C33_FirstEditStarts ==
    (lastOp.op = "record_edit" /\ pre.state = Inactive) =>
        /\ session.state = Active
        /\ IsSome(session.started_at)
        /\ session.last_edit_at = session.started_at
        /\ session.ended_at = None
        /\ session.duration_minutes = 0
        /\ session.annotation_count = 0

\* The clock moved between record_edit's Utc::now() and the one of start():
\* both timestamps are the later reading
C33_Witness ==
    /\ lastOp.op = "record_edit"
    /\ pre.state = Inactive
    /\ lastOp.t2 # lastOp.t
    /\ session.state = Active
    /\ session.started_at = Some(lastOp.t2)
    /\ session.last_edit_at = Some(lastOp.t2)

\* C34: record_edit on an Active session sets last_edit_at to now and
\* changes no other field, so that afterwards the inactivity threshold is
\* measured from this edit and the max-duration threshold still from the
\* first edit (started_at).
C34_EditMovesOnlyLastEdit ==
    (lastOp.op = "record_edit" /\ pre.state = Active) =>
        /\ session = [pre EXCEPT !.last_edit_at = Some(lastOp.t)]
        /\ \A cfg \in Configs, t \in Times :
              /\ InactivityReached(session, cfg, t) <=>
                     t - lastOp.t >= Minutes(cfg.inactivity_timeout_minutes)
              /\ MaxDurationReached(session, cfg, t) <=>
                     MaxDurationReached(pre, cfg, t)

C34_Witness ==
    /\ lastOp.op = "record_edit"
    /\ pre.state = Active
    /\ pre.last_edit_at # Some(lastOp.t)
    /\ session.last_edit_at = Some(lastOp.t)
    /\ session.started_at = pre.started_at
    /\ session.started_at # session.last_edit_at

\* C35: a call that ends an Active session (end, or check_timeouts through
\* end) sets duration_minutes to max(0, whole minutes from started_at to
\* the instant end() reads): 0 when that instant is the one of the first
\* edit, 0 and not negative when the clock was set back behind started_at;
\* on an Ended session record_edit, end and check_timeouts change neither
\* duration_minutes nor ended_at.
C35_DurationFrozenAtEnd ==
    /\ (/\ lastOp.op \in {"end", "check_timeouts"}
        /\ pre.state = Active
        /\ session.state = Ended) =>
          LET elapsed == lastOp.t2 - Unwrap(pre.started_at)
          IN /\ session.ended_at = Some(lastOp.t2)
             /\ session.duration_minutes >= 0
             /\ elapsed >= 0 =>
                    session.duration_minutes = elapsed \div TicksPerMinute
             /\ elapsed <= 0 => session.duration_minutes = 0
    /\ (/\ lastOp.op \in {"record_edit", "end", "check_timeouts"}
        /\ pre.state = Ended) =>
          /\ session.duration_minutes = pre.duration_minutes
          /\ session.ended_at = pre.ended_at

\* end() reads a clock that was set back by a whole minute or more behind
\* started_at
C35_Witness ==
    /\ lastOp.op = "end"
    /\ pre.state = Active
    /\ lastOp.t2 - Unwrap(pre.started_at) <= -TicksPerMinute
    /\ session.state = Ended
    /\ session.duration_minutes = 0

=============================================================================
